---- MODULE Spec2Model ----
(***************************************************************************)
(* Execution-and-effect engine of sp-move-vm: Mvm (mvm/src/mvm.rs), the    *)
(* older Dvm (dvm/src/dvm.rs) and the capability mocks of                  *)
(* mvm/tests/common/mock.rs.  One behaviour is one engine over one host    *)
(* state running one transaction, step by step, and clear() around it.     *)
(***************************************************************************)
EXTENDS Integers, Sequences, FiniteSets, TLC

VARIABLES
    engine,      \* "Mvm" | "Dvm": which engine value was constructed
    pc,          \* position inside publish_module / execute_script
    tx,          \* the Gas and ModuleTx / ScriptTx handed to the call
    gas_left,    \* CostStrategy.gas_left of the call's cost_strategy
    vm_res,      \* Result<TransactionEffects, VMError> handed to handle_vm_result
    gas_used,    \* the local gas_used of handle_vm_result
    effects,     \* the part of tx_effects the loops have not consumed yet
    produced,    \* history: the TransactionEffects the session finished with
    storage,     \* StorageMock.data
    handler,     \* EventHandlerMock.data
    balances,    \* BankMock.balances
    before,      \* history: storage, handler and balances when the call was made
    steps,       \* history: engine steps and capability calls of the call, in order
    result,      \* the value returned to the caller, None until the call returns
    vm,          \* the engine's MoveVM: what its loader has cached
    cost_table,  \* the engine's CostTable
    input,       \* the argument of a function applied on its own
    output       \* what that function returned

vars == <<engine, pc, tx, gas_left, vm_res, gas_used, effects, produced,
          storage, handler, balances, before, steps, result,
          vm, cost_table, input, output>>

----------------------------------------------------------------------------
(* Bounds of the model *)

\* largest max_gas_amount a caller supplies
MaxGas == 4
\* largest number of events, and of wallet operations, in one effect set
MaxLen == 2
\* largest number of mutating calls a host makes on a BankMock
MaxCalls == 3
\* largest length of the short sequences the codec is given
MaxSeq == 2

----------------------------------------------------------------------------
(* Option<T> *)

None == <<>>
Some(x) == <<x>>
IsSome(o) == o # <<>>
Unwrap(o) == o[1]

Min(a, b) == IF a < b THEN a ELSE b

----------------------------------------------------------------------------
(* Data *)

Addresses == {1, 2}
StructTags == {1}
ModuleNames == {1}
Tickers == {1}

\* bytes of a module blob: a header byte, then the declared address
MagicByte == 1
ModuleBlobs == {<<0>>, <<MagicByte, 1>>, <<MagicByte, 2>>, <<0, 1>>}
ScriptBlobs == {<<9, 9>>}
Senders == {1}

\* access_vector of a struct tag / of a module id, and the storage key
ResourceAccessVector(struct_tag) == <<1, struct_tag>>
ModuleAccessVector(name) == <<0, name>>
AccessPath(address, path) == <<address>> \o path

ResourceKeys == {AccessPath(a, ResourceAccessVector(t)) : a \in Addresses, t \in StructTags}
ModuleKeys == {AccessPath(a, ModuleAccessVector(n)) : a \in Addresses, n \in ModuleNames}
Keys == ResourceKeys \cup ModuleKeys

WalletIds == [address : {1}, ticker : Tickers]

\* status codes
EXECUTED == "EXECUTED"
OUT_OF_GAS == "OUT_OF_GAS"
MALFORMED == "MALFORMED"
MODULE_ADDRESS_DOES_NOT_MATCH_SENDER == "MODULE_ADDRESS_DOES_NOT_MATCH_SENDER"
UNKNOWN_INVARIANT_VIOLATION_ERROR == "UNKNOWN_INVARIANT_VIOLATION_ERROR"
ABORTED == "ABORTED"

\* VMError: PartialVMError::new(major).finish(location)
VMError(major, sub, location) ==
    [major_status |-> major, sub_status |-> sub, location |-> location]

----------------------------------------------------------------------------
(* Values and the canonical codec, as far as the engine uses them *)

Layouts == {"U8", "Bool"}
U8(n) == [ty |-> "U8", n |-> n]
Bool(n) == [ty |-> "Bool", n |-> n]

\* Value::simple_serialize(&layout): the bytes of the value under the layout,
\* None when the value does not have the layout's shape
SimpleSerialize(val, ty_layout) ==
    IF val.ty = ty_layout THEN Some(<<val.n>>) ELSE None

\* CompiledModule::deserialize + self_id(): the header of a module blob
Deserialize(blob) ==
    IF Len(blob) >= 2 /\ blob[1] = MagicByte
    THEN Some([address |-> blob[2], name |-> 1])
    ELSE None

----------------------------------------------------------------------------
(* TransactionEffects a session can finish with *)

ResourceIds == Addresses \X StructTags

\* canonical order of (address, struct tag)
IdLess(a, b) == a[1] < b[1] \/ (a[1] = b[1] /\ a[2] < b[2])

RECURSIVE SortedIds(_)
SortedIds(S) ==
    IF S = {} THEN <<>>
    ELSE LET m == CHOOSE x \in S : \A y \in S \ {x} : IdLess(x, y)
         IN <<m>> \o SortedIds(S \ {m})

\* what a session may hold for one resource: untouched, deleted, written with
\* a value of its layout, written with a value its layout cannot encode
ResourceChanges == {"keep", "delete", "write", "bad"}

ValOpt(change, id) ==
    CASE change = "delete" -> None
      [] change = "write" -> Some(<<"U8", U8(6 + id[1])>>)
      [] OTHER -> Some(<<"U8", Bool(1)>>)

RECURSIVE ResourceSeq(_, _)
ResourceSeq(ids, f) ==
    IF ids = <<>> THEN <<>>
    ELSE LET id == Head(ids)
             rest == ResourceSeq(Tail(ids), f)
         IN IF f[id] = "keep" THEN rest
            ELSE <<[addr |-> id[1], struct_tag |-> id[2],
                    val_opt |-> ValOpt(f[id], id)]>> \o rest

ResourceEffects ==
    {ResourceSeq(SortedIds(ResourceIds), f) : f \in [ResourceIds -> ResourceChanges]}

ModuleId(address, name) == [address |-> address, name |-> name]

\* none, one, or two modules in the order of their ids
ModuleEffects ==
    {<<>>,
     <<[module_id |-> ModuleId(1, 1), blob |-> <<MagicByte, 1>>]>>,
     <<[module_id |-> ModuleId(1, 1), blob |-> <<MagicByte, 1>>],
       [module_id |-> ModuleId(2, 1), blob |-> <<MagicByte, 2>>]>>}

\* the i-th emitted event carries i, so deliveries can be told apart
Event(i, encodable) ==
    [address |-> 1, ty_tag |-> "U8", ty_layout |-> "U8",
     val |-> IF encodable THEN U8(i) ELSE Bool(1), caller |-> None]

EventEffects ==
    UNION {{[i \in 1..n |-> Event(i, enc[i])] : enc \in [1..n -> BOOLEAN]} : n \in 0..MaxLen}

Deposit(amount) == [kind |-> "Deposit", amount |-> amount]
Withdraw(amount) == [kind |-> "Withdraw", amount |-> amount]
BalanceOperations == {Deposit(1), Withdraw(1)}

WalletOps ==
    UNION {[1..n -> WalletIds \X BalanceOperations] : n \in 0..MaxLen}

EmptyEffects == [resources |-> <<>>, modules |-> <<>>, events |-> <<>>, wallet_ops |-> <<>>]

\* Result<TransactionEffects, VMError>
Ok(e) == [ok |-> TRUE, effects |-> e, err |-> VMError(EXECUTED, None, None)]
Err(e) == [ok |-> FALSE, effects |-> EmptyEffects, err |-> e]

\* Mvm: the dfinance TransactionEffects with events and wallet_ops; the sets
\* of two modules are taken without events and wallet operations
MvmEffectSets ==
    {e \in [resources : ResourceEffects, modules : ModuleEffects,
            events : EventEffects, wallet_ops : WalletOps] :
        Len(e.modules) > 1 => (e.events = <<>> /\ e.wallet_ops = <<>>)}

\* Dvm: sessions are opened without a bank, so no wallet operation arises
DvmEffectSets ==
    [resources : ResourceEffects, modules : ModuleEffects,
     events : {<<>>, <<Event(1, TRUE)>>}, wallet_ops : {<<>>}]

----------------------------------------------------------------------------
(* Gas: CostStrategy *)

IntrinsicGasPerByte == 1

\* the address the on-chain configs live under, and the key of the VM config
ConfigAddress == 2
VmConfigKey == AccessPath(ConfigAddress, ResourceAccessVector(1))

\* gas_schedule::cost_table(): the built-in table
DefaultCostTable == [intrinsic_gas_per_byte |-> IntrinsicGasPerByte, instruction_table |-> 0]

\* load_vm_config(&store): the VMConfig decoded from the stored blob, the
\* built-in one when the store holds none
LoadVmConfig(store) ==
    LET blob == store[VmConfigKey]
    IN IF blob = None THEN Some([gas_schedule |-> DefaultCostTable])
       ELSE IF Len(Unwrap(blob)) = 1
       THEN Some([gas_schedule |-> [intrinsic_gas_per_byte |-> IntrinsicGasPerByte,
                                    instruction_table |-> Unwrap(blob)[1]]])
       ELSE None

\* the intrinsic cost of a payload of the given size
IntrinsicCost(size) == cost_table.intrinsic_gas_per_byte * size

\* CostStrategy::deduct_gas: <<gas_left afterwards, succeeded>>
DeductGas(left, amount) ==
    IF amount <= left THEN <<left - amount, TRUE>> ELSE <<0, FALSE>>

\* CostStrategy::charge_intrinsic_gas(AbstractMemorySize::new(size))
ChargeIntrinsicGas(left, size) == DeductGas(left, IntrinsicCost(size))

OutOfGas == VMError(OUT_OF_GAS, None, None)

----------------------------------------------------------------------------
(* Capabilities: StorageMock, EventHandlerMock, BankMock *)

StorageGet(data, key) == data[key]
StorageInsert(data, key, value) == [data EXCEPT ![key] = Some(value)]
StorageRemove(data, key) == [data EXCEPT ![key] = None]

\* mutant: the newest event put in front
OnEventInFront(data, address, ty_tag, message, caller) ==
    <<<<address, ty_tag, message, caller>>>> \o data

\* EventHandlerMock::on_event: data.push(..)
OnEvent(data, address, ty_tag, message, caller) ==
    Append(data, <<address, ty_tag, message, caller>>)

GetBalance(bank, id) == bank[id]

\* entry(..).or_insert(0)
OrInsertZero(bank, id) == IF IsSome(bank[id]) THEN bank ELSE [bank EXCEPT ![id] = Some(0)]

\* BankMock::set_balance
BankSetBalance(bank, id, amount) == [bank EXCEPT ![id] = Some(amount)]

\* mutant: the debit is made without looking at the balance
BankDepositUnchecked(bank, id, amount) ==
    LET b == OrInsertZero(bank, id)
        val == Unwrap(b[id])
    IN [balances |-> [b EXCEPT ![id] = Some(val - amount)], panic |-> FALSE]

\* mutant: an over-debit empties the wallet before it panics
BankDepositClamping(bank, id, amount) ==
    LET b == OrInsertZero(bank, id)
        val == Unwrap(b[id])
    IN IF val < amount
       THEN [balances |-> [b EXCEPT ![id] = Some(0)], panic |-> TRUE]
       ELSE [balances |-> [b EXCEPT ![id] = Some(val - amount)], panic |-> FALSE]

\* mutant: the balance is compared before an entry is made
BankDepositLookupOnly(bank, id, amount) ==
    LET val == IF IsSome(bank[id]) THEN Unwrap(bank[id]) ELSE 0
    IN IF val < amount
       THEN [balances |-> bank, panic |-> TRUE]
       ELSE [balances |-> [bank EXCEPT ![id] = Some(val - amount)], panic |-> FALSE]

\* BankMock::deposit: a debit; panics when the balance is below the amount
BankDeposit(bank, id, amount) ==
    LET b == OrInsertZero(bank, id)
        val == Unwrap(b[id])
    IN IF val < amount
       THEN [balances |-> b, panic |-> TRUE]
       ELSE [balances |-> [b EXCEPT ![id] = Some(val - amount)], panic |-> FALSE]

\* BankMock::withdraw: a credit
BankWithdraw(bank, id, amount) ==
    LET b == OrInsertZero(bank, id)
        val == Unwrap(b[id])
    IN [balances |-> [b EXCEPT ![id] = Some(val + amount)], panic |-> FALSE]

----------------------------------------------------------------------------
(* The interpreter session, an external capability *)

\* gas the interpreter may ask for while it runs a module or script
ExecutionCosts == {0, 1}

\* errors a session may end with besides running out of gas
SessionErrors == {VMError(ABORTED, Some(1), Some(ModuleId(1, 1)))}

\* session.publish_module(..).and_then(|_| session.finish()): the outcomes,
\* each <<gas_left afterwards, Result<TransactionEffects, VMError>>>
SessionOutcomes(left, effect_sets) ==
    UNION {LET d == DeductGas(left, need)
           IN IF d[2]
              THEN {<<d[1], Ok(e)>> : e \in effect_sets}
                   \cup {<<d[1], Err(err)>> : err \in SessionErrors}
              ELSE {<<d[1], Err(OutOfGas)>>}
           : need \in ExecutionCosts}

\* session.execute_script(..).and_then(|_| session.finish()): the session
\* charges the script's intrinsic cost before it runs the script
ScriptOutcomes(left, script, effect_sets) ==
    LET c == ChargeIntrinsicGas(left, Len(script))
    IN IF c[2] THEN SessionOutcomes(c[1], effect_sets)
       ELSE {<<c[1], Err(OutOfGas)>>}

----------------------------------------------------------------------------
(* Construction *)

NoTx == [kind |-> "none", max_gas_amount |-> 0, code |-> <<>>, sender |-> 0]

\* what the host hands to Mvm::new / Dvm::new: a store and a bank nobody has
\* written to, or a store holding a blob under every key and a funded bank
HostStates ==
    {[storage |-> [k \in Keys |-> None], balances |-> [w \in WalletIds |-> None]],
     [storage |-> [k \in Keys |-> Some(<<0>>)], balances |-> [w \in WalletIds |-> Some(1)]]}

Snapshot == [storage |-> storage, handler |-> handler, balances |-> balances]

\* MoveVM::new(): a loader that has cached nothing
FreshVm == {}
\* what running code leaves in the loader's cache
Load(cache, code) == cache \cup {code}

\* Mvm::new(store, ..) / Dvm::new(store): the fields of the engine value
NewEngine(e, store) ==
    [vm |-> FreshVm,
     cost_table |-> IF e = "Mvm" THEN Unwrap(LoadVmConfig(store)).gas_schedule
                    ELSE DefaultCostTable]

Init ==
    /\ engine \in {"Mvm", "Dvm"}
    /\ pc = "idle"
    /\ tx = NoTx
    /\ gas_left = 0
    /\ vm_res = Err(VMError(EXECUTED, None, None))
    /\ gas_used = 0
    /\ effects = EmptyEffects
    /\ produced = None
    /\ \E h \in HostStates : storage = h.storage /\ balances = h.balances
    /\ handler = <<>>
    /\ before = [storage |-> storage, handler |-> <<>>, balances |-> balances]
    /\ steps = <<>>
    /\ result = None
    /\ vm = NewEngine(engine, storage).vm
    /\ cost_table = NewEngine(engine, storage).cost_table
    /\ input = None
    /\ output = None

----------------------------------------------------------------------------
(* Mvm: mvm/src/mvm.rs *)

\* VmResult::new(status_code, sub_status, gas_used)
VmResult(status_code, sub_status, used) ==
    [status_code |-> status_code, sub_status |-> sub_status, gas_used |-> used]

\* mutant: the operands the wrong way round in an addition
GasUsedAdded(max_gas_amount, remaining_gas) == max_gas_amount + remaining_gas

\* GasUnits::new(gas_meta.max_gas_amount).sub(cost_strategy.remaining_gas()).get()
GasUsed(max_gas_amount, remaining_gas) == max_gas_amount - remaining_gas

\* mutant: the error's status dropped for a generic one
ResultOfGeneric(res, used) ==
    IF res.ok THEN VmResult(EXECUTED, None, used)
    ELSE VmResult(ABORTED, None, used)

\* mutant: the sub-status left behind
ResultOfNoSub(res, used) ==
    IF res.ok THEN VmResult(EXECUTED, None, used)
    ELSE VmResult(res.err.major_status, None, used)

\* match result { Ok(_) => VmResult::new(EXECUTED, None, gas_used),
\*                Err(err) => VmResult::new(err.major_status(), err.sub_status(), gas_used) }
ResultOf(res, used) ==
    IF res.ok THEN VmResult(EXECUTED, None, used)
    ELSE VmResult(res.err.major_status, res.err.sub_status, used)

\* mutant: the failure reported under the interpreter's abort code
InvariantViolationAsAbort == VMError(ABORTED, None, None)

\* PartialVMError::new(UNKNOWN_INVARIANT_VIOLATION_ERROR).finish(Location::Undefined)
InvariantViolation == VMError(UNKNOWN_INVARIANT_VIOLATION_ERROR, None, None)

\* mutant: the events loop moved in front of the modules loop
PhaseEventsEarly(e) ==
    IF e.resources # <<>> THEN "resources"
    ELSE IF e.events # <<>> THEN "events"
    ELSE IF e.modules # <<>> THEN "modules"
    ELSE IF e.wallet_ops # <<>> THEN "wallet_ops"
    ELSE "end"

\* the loop of handle_tx_effects that runs next: the four loops follow one
\* another, each consuming its collection
Phase(e) ==
    IF e.resources # <<>> THEN "resources"
    ELSE IF e.modules # <<>> THEN "modules"
    ELSE IF e.events # <<>> THEN "events"
    ELSE IF e.wallet_ops # <<>> THEN "wallet_ops"
    ELSE "end"

\* mutant: the comparison never rejects
SenderNeverDiffers(sender, module_id) == FALSE

\* sender != *module_id.address()
SenderDiffers(sender, module_id) == sender # module_id.address

Step(s) == steps' = Append(steps, s)

\* publish_module: into_inner and CostStrategy::transaction
MvmPublishModule ==
    /\ engine = "Mvm" /\ pc = "idle"
    /\ \E max \in 0..MaxGas, module \in ModuleBlobs, sender \in Senders :
          /\ tx' = [kind |-> "module", max_gas_amount |-> max,
                    code |-> module, sender |-> sender]
          /\ gas_left' = max
    /\ pc' = "charge_first"
    /\ before' = Snapshot
    /\ UNCHANGED <<vm, cost_table, input, output>>
    /\ UNCHANGED <<engine, vm_res, gas_used, effects, produced, storage, handler,
                   balances, steps, result>>

\* mutant: the outcome of the first charge is not looked at
MvmChargeFirstUnchecked ==
    /\ engine = "Mvm" /\ pc = "charge_first"
    /\ LET c == ChargeIntrinsicGas(gas_left, Len(tx.code))
       IN /\ gas_left' = c[1]
          /\ Step(<<"charge_intrinsic_gas", Len(tx.code), c[2]>>)
          /\ pc' = "deserialize"
    /\ UNCHANGED <<vm, cost_table, input, output>>
    /\ UNCHANGED <<engine, tx, vm_res, gas_used, effects, produced, storage, handler,
                   balances, before, result>>

\* the first charge_intrinsic_gas(module.len())
MvmChargeFirst ==
    /\ engine = "Mvm" /\ pc = "charge_first"
    /\ LET c == ChargeIntrinsicGas(gas_left, Len(tx.code))
       IN /\ gas_left' = c[1]
          /\ Step(<<"charge_intrinsic_gas", Len(tx.code), c[2]>>)
          /\ IF c[2]
             THEN pc' = "deserialize" /\ UNCHANGED vm_res
             ELSE pc' = "handle_vm_result" /\ vm_res' = Err(OutOfGas)
    /\ UNCHANGED <<vm, cost_table, input, output>>
    /\ UNCHANGED <<engine, tx, gas_used, effects, produced, storage, handler,
                   balances, before, result>>

\* CompiledModule::deserialize(&module).map_err(|e| e.finish(Location::Undefined))
MvmDeserialize ==
    /\ engine = "Mvm" /\ pc = "deserialize"
    /\ Step(<<"deserialize", IsSome(Deserialize(tx.code))>>)
    /\ IF IsSome(Deserialize(tx.code))
       THEN pc' = "check_sender" /\ UNCHANGED vm_res
       ELSE pc' = "handle_vm_result" /\ vm_res' = Err(VMError(MALFORMED, None, None))
    /\ UNCHANGED <<vm, cost_table, input, output>>
    /\ UNCHANGED <<engine, tx, gas_left, gas_used, effects, produced, storage,
                   handler, balances, before, result>>

\* if sender != *module_id.address() { return Err(..) }
MvmCheckSender ==
    /\ engine = "Mvm" /\ pc = "check_sender"
    /\ LET module_id == Unwrap(Deserialize(tx.code))
       IN /\ Step(<<"check_sender", ~SenderDiffers(tx.sender, module_id)>>)
          /\ IF SenderDiffers(tx.sender, module_id)
             THEN /\ pc' = "handle_vm_result"
                  /\ vm_res' = Err(VMError(MODULE_ADDRESS_DOES_NOT_MATCH_SENDER,
                                           None, Some(module_id)))
             ELSE pc' = "charge_second" /\ UNCHANGED vm_res
    /\ UNCHANGED <<vm, cost_table, input, output>>
    /\ UNCHANGED <<engine, tx, gas_left, gas_used, effects, produced, storage,
                   handler, balances, before, result>>

\* mutant: the second charge left out
MvmChargeSecondDropped ==
    /\ engine = "Mvm" /\ pc = "charge_second"
    /\ pc' = "session"
    /\ UNCHANGED <<vm, cost_table, input, output>>
    /\ UNCHANGED <<engine, tx, gas_left, vm_res, gas_used, effects, produced, storage,
                   handler, balances, before, steps, result>>

\* mutant: the outcome of the second charge is not looked at
MvmChargeSecondUnchecked ==
    /\ engine = "Mvm" /\ pc = "charge_second"
    /\ LET c == ChargeIntrinsicGas(gas_left, Len(tx.code))
       IN /\ gas_left' = c[1]
          /\ Step(<<"charge_intrinsic_gas", Len(tx.code), c[2]>>)
          /\ pc' = "session"
    /\ UNCHANGED <<vm, cost_table, input, output>>
    /\ UNCHANGED <<engine, tx, vm_res, gas_used, effects, produced, storage, handler,
                   balances, before, result>>

\* the second charge_intrinsic_gas(module.len())?
MvmChargeSecond ==
    /\ engine = "Mvm" /\ pc = "charge_second"
    /\ LET c == ChargeIntrinsicGas(gas_left, Len(tx.code))
       IN /\ gas_left' = c[1]
          /\ Step(<<"charge_intrinsic_gas", Len(tx.code), c[2]>>)
          /\ IF c[2]
             THEN pc' = "session" /\ UNCHANGED vm_res
             ELSE pc' = "handle_vm_result" /\ vm_res' = Err(OutOfGas)
    /\ UNCHANGED <<vm, cost_table, input, output>>
    /\ UNCHANGED <<engine, tx, gas_used, effects, produced, storage, handler,
                   balances, before, result>>

\* mutant: the module blob is stored before the session's outcome is known
MvmPublishSessionStoring ==
    /\ engine = "Mvm" /\ pc = "session"
    /\ \E o \in SessionOutcomes(gas_left, MvmEffectSets) :
          /\ gas_left' = o[1]
          /\ vm_res' = o[2]
          /\ produced' = IF o[2].ok THEN Some(o[2].effects) ELSE None
    /\ LET ap == AccessPath(tx.sender, ModuleAccessVector(1))
       IN /\ storage' = StorageInsert(storage, ap, tx.code)
          /\ steps' = steps \o <<<<"new_session">>, <<"insert", ap, tx.code>>>>
    /\ pc' = "handle_vm_result"
    /\ vm' = Load(vm, tx.code)
    /\ UNCHANGED <<cost_table, input, output>>
    /\ UNCHANGED <<engine, tx, gas_used, effects, handler, balances, before, result>>

\* new_session, session.publish_module(..).and_then(|_| session.finish())
MvmPublishSession ==
    /\ engine = "Mvm" /\ pc = "session"
    /\ \E o \in SessionOutcomes(gas_left, MvmEffectSets) :
          /\ gas_left' = o[1]
          /\ vm_res' = o[2]
          /\ produced' = IF o[2].ok THEN Some(o[2].effects) ELSE None
    /\ Step(<<"new_session">>)
    /\ pc' = "handle_vm_result"
    /\ vm' = Load(vm, tx.code)
    /\ UNCHANGED <<cost_table, input, output>>
    /\ UNCHANGED <<engine, tx, gas_used, effects, storage, handler, balances,
                   before, result>>

\* execute_script: StateSession::new, new_session, into_inner,
\* CostStrategy::transaction
MvmExecuteScript ==
    /\ engine = "Mvm" /\ pc = "idle"
    /\ \E max \in 0..MaxGas, script \in ScriptBlobs, sender \in Senders :
          /\ tx' = [kind |-> "script", max_gas_amount |-> max,
                    code |-> script, sender |-> sender]
          /\ gas_left' = max
    /\ pc' = "script"
    /\ before' = Snapshot
    /\ steps' = <<<<"new_session">>>>
    /\ UNCHANGED <<vm, cost_table, input, output>>
    /\ UNCHANGED <<engine, vm_res, gas_used, effects, produced, storage, handler,
                   balances, result>>

\* session.execute_script(..).and_then(|_| session.finish())
MvmRunScript ==
    /\ engine = "Mvm" /\ pc = "script"
    /\ \E o \in ScriptOutcomes(gas_left, tx.code, MvmEffectSets) :
          /\ gas_left' = o[1]
          /\ vm_res' = o[2]
          /\ produced' = IF o[2].ok THEN Some(o[2].effects) ELSE None
    /\ Step(<<"execute_script">>)
    /\ pc' = "handle_vm_result"
    /\ vm' = Load(vm, tx.code)
    /\ UNCHANGED <<cost_table, input, output>>
    /\ UNCHANGED <<engine, tx, gas_used, effects, storage, handler, balances,
                   before, result>>

\* handle_vm_result: gas_used, then result.and_then(handle_tx_effects); an
\* Err(err) becomes VmResult::new(err.major_status(), err.sub_status(), gas_used)
HandleVmResult ==
    /\ engine = "Mvm" /\ pc = "handle_vm_result"
    /\ LET used == GasUsed(tx.max_gas_amount, gas_left)
       IN /\ gas_used' = used
          /\ IF vm_res.ok
             THEN /\ effects' = vm_res.effects
                  /\ pc' = "handle_tx_effects"
                  /\ UNCHANGED result
             ELSE /\ result' = Some(ResultOf(vm_res, used))
                  /\ pc' = "done"
                  /\ UNCHANGED effects
    /\ UNCHANGED <<vm, cost_table, input, output>>
    /\ UNCHANGED <<engine, tx, gas_left, vm_res, produced, storage, handler,
                   balances, before, steps>>

\* mutant: the first loop walks the collection from its far end
ApplyResourceFromBack ==
    /\ engine = "Mvm" /\ pc = "handle_tx_effects" /\ Phase(effects) = "resources"
    /\ LET n == Len(effects.resources)
           r == effects.resources[n]
           rest == SubSeq(effects.resources, 1, n - 1)
           ap == AccessPath(r.addr, ResourceAccessVector(r.struct_tag))
           blob == SimpleSerialize(Unwrap(r.val_opt)[2], Unwrap(r.val_opt)[1])
       IN IF r.val_opt = None
          THEN /\ storage' = StorageRemove(storage, ap)
               /\ Step(<<"remove", ap>>)
               /\ effects' = [effects EXCEPT !.resources = rest]
               /\ UNCHANGED <<pc, result>>
          ELSE IF IsSome(blob)
          THEN /\ storage' = StorageInsert(storage, ap, Unwrap(blob))
               /\ Step(<<"insert", ap, Unwrap(blob)>>)
               /\ effects' = [effects EXCEPT !.resources = rest]
               /\ UNCHANGED <<pc, result>>
          ELSE /\ result' = Some(ResultOf(Err(InvariantViolation), gas_used))
               /\ pc' = "done"
               /\ UNCHANGED <<storage, steps, effects>>
    /\ UNCHANGED <<vm, cost_table, input, output>>
    /\ UNCHANGED <<engine, tx, gas_left, vm_res, gas_used, produced, handler,
                   balances, before>>

\* handle_tx_effects, first loop: one (addr, struct_tag, val_opt)
ApplyResource ==
    /\ engine = "Mvm" /\ pc = "handle_tx_effects" /\ Phase(effects) = "resources"
    /\ LET r == Head(effects.resources)
           ap == AccessPath(r.addr, ResourceAccessVector(r.struct_tag))
           blob == SimpleSerialize(Unwrap(r.val_opt)[2], Unwrap(r.val_opt)[1])
       IN IF r.val_opt = None
          THEN /\ storage' = StorageRemove(storage, ap)
               /\ Step(<<"remove", ap>>)
               /\ effects' = [effects EXCEPT !.resources = Tail(@)]
               /\ UNCHANGED <<pc, result>>
          ELSE IF IsSome(blob)
          THEN /\ storage' = StorageInsert(storage, ap, Unwrap(blob))
               /\ Step(<<"insert", ap, Unwrap(blob)>>)
               /\ effects' = [effects EXCEPT !.resources = Tail(@)]
               /\ UNCHANGED <<pc, result>>
          ELSE /\ result' = Some(ResultOf(Err(InvariantViolation), gas_used))
               /\ pc' = "done"
               /\ UNCHANGED <<storage, steps, effects>>
    /\ UNCHANGED <<vm, cost_table, input, output>>
    /\ UNCHANGED <<engine, tx, gas_left, vm_res, gas_used, produced, handler,
                   balances, before>>

\* mutant: a module is written only where the store holds nothing
ApplyModuleIfAbsent ==
    /\ engine = "Mvm" /\ pc = "handle_tx_effects" /\ Phase(effects) = "modules"
    /\ LET m == Head(effects.modules)
           ap == AccessPath(m.module_id.address, ModuleAccessVector(m.module_id.name))
       IN /\ storage' = IF IsSome(storage[ap]) THEN storage
                         ELSE StorageInsert(storage, ap, m.blob)
          /\ Step(<<"insert", ap, m.blob>>)
    /\ effects' = [effects EXCEPT !.modules = Tail(@)]
    /\ UNCHANGED <<vm, cost_table, input, output>>
    /\ UNCHANGED <<engine, pc, tx, gas_left, vm_res, gas_used, produced, handler,
                   balances, before, result>>

\* handle_tx_effects, second loop: one (module_id, blob)
ApplyModule ==
    /\ engine = "Mvm" /\ pc = "handle_tx_effects" /\ Phase(effects) = "modules"
    /\ LET m == Head(effects.modules)
           ap == AccessPath(m.module_id.address, ModuleAccessVector(m.module_id.name))
       IN /\ storage' = StorageInsert(storage, ap, m.blob)
          /\ Step(<<"insert", ap, m.blob>>)
    /\ effects' = [effects EXCEPT !.modules = Tail(@)]
    /\ UNCHANGED <<vm, cost_table, input, output>>
    /\ UNCHANGED <<engine, pc, tx, gas_left, vm_res, gas_used, produced, handler,
                   balances, before, result>>

\* mutant: an event that cannot be encoded is skipped and the loop goes on
DeliverEventSkipping ==
    /\ engine = "Mvm" /\ pc = "handle_tx_effects" /\ Phase(effects) = "events"
    /\ LET ev == Head(effects.events)
           msg == SimpleSerialize(ev.val, ev.ty_layout)
       IN IF IsSome(msg)
          THEN /\ handler' = OnEvent(handler, ev.address, ev.ty_tag, Unwrap(msg), ev.caller)
               /\ Step(<<"on_event", ev.address, ev.ty_tag, Unwrap(msg), ev.caller>>)
          ELSE UNCHANGED <<handler, steps>>
    /\ effects' = [effects EXCEPT !.events = Tail(@)]
    /\ UNCHANGED <<vm, cost_table, input, output>>
    /\ UNCHANGED <<engine, pc, tx, gas_left, vm_res, gas_used, produced, storage,
                   balances, before, result>>

\* handle_tx_effects, third loop: one (address, ty_tag, ty_layout, val, caller)
DeliverEvent ==
    /\ engine = "Mvm" /\ pc = "handle_tx_effects" /\ Phase(effects) = "events"
    /\ LET ev == Head(effects.events)
           msg == SimpleSerialize(ev.val, ev.ty_layout)
       IN IF IsSome(msg)
          THEN /\ handler' = OnEvent(handler, ev.address, ev.ty_tag, Unwrap(msg), ev.caller)
               /\ Step(<<"on_event", ev.address, ev.ty_tag, Unwrap(msg), ev.caller>>)
               /\ effects' = [effects EXCEPT !.events = Tail(@)]
               /\ UNCHANGED <<pc, result>>
          ELSE /\ result' = Some(ResultOf(Err(InvariantViolation), gas_used))
               /\ pc' = "done"
               /\ UNCHANGED <<handler, steps, effects>>
    /\ UNCHANGED <<vm, cost_table, input, output>>
    /\ UNCHANGED <<engine, tx, gas_left, vm_res, gas_used, produced, storage,
                   balances, before>>

\* handle_tx_effects, fourth loop: one (id, op); a panic of the bank unwinds
\* out of the call
ApplyWalletOp ==
    /\ engine = "Mvm" /\ pc = "handle_tx_effects" /\ Phase(effects) = "wallet_ops"
    /\ LET id == Head(effects.wallet_ops)[1]
           op == Head(effects.wallet_ops)[2]
           b == IF op.kind = "Deposit"
                THEN BankDeposit(balances, id, op.amount)
                ELSE BankWithdraw(balances, id, op.amount)
       IN /\ balances' = b.balances
          /\ Step(<<IF op.kind = "Deposit" THEN "deposit" ELSE "withdraw", id, op.amount>>)
          /\ pc' = IF b.panic THEN "panic" ELSE pc
    /\ effects' = [effects EXCEPT !.wallet_ops = Tail(@)]
    /\ UNCHANGED <<vm, cost_table, input, output>>
    /\ UNCHANGED <<engine, tx, gas_left, vm_res, gas_used, produced, storage,
                   handler, before, result>>

\* handle_tx_effects returns Ok(()) and handle_vm_result the VmResult
FinishTxEffects ==
    /\ engine = "Mvm" /\ pc = "handle_tx_effects" /\ Phase(effects) = "end"
    /\ result' = Some(ResultOf(Ok(EmptyEffects), gas_used))
    /\ pc' = "done"
    /\ UNCHANGED <<vm, cost_table, input, output>>
    /\ UNCHANGED <<engine, tx, gas_left, vm_res, gas_used, effects, produced,
                   storage, handler, balances, before, steps>>

----------------------------------------------------------------------------
(* Dvm: dvm/src/dvm.rs.  Its VmResult is a Result<(), VMError>: the body    *)
(* ends in Ok(()) and leaves through the ? operator.                        *)

DvmOk == [ok |-> TRUE, err |-> VMError(EXECUTED, None, None)]
DvmErr(e) == [ok |-> FALSE, err |-> e]

\* publish_module: into_inner and CostStrategy::transaction
DvmPublishModule ==
    /\ engine = "Dvm" /\ pc = "idle"
    /\ \E max \in 0..MaxGas, module \in ModuleBlobs, sender \in Senders :
          /\ tx' = [kind |-> "module", max_gas_amount |-> max,
                    code |-> module, sender |-> sender]
          /\ gas_left' = max
    /\ pc' = "charge_first"
    /\ before' = Snapshot
    /\ UNCHANGED <<vm, cost_table, input, output>>
    /\ UNCHANGED <<engine, vm_res, gas_used, effects, produced, storage, handler,
                   balances, steps, result>>

\* cost_strategy.charge_intrinsic_gas(module.len())?
DvmChargeFirst ==
    /\ engine = "Dvm" /\ pc = "charge_first"
    /\ LET c == ChargeIntrinsicGas(gas_left, Len(tx.code))
       IN /\ gas_left' = c[1]
          /\ Step(<<"charge_intrinsic_gas", Len(tx.code), c[2]>>)
          /\ IF c[2]
             THEN pc' = "deserialize" /\ UNCHANGED result
             ELSE pc' = "done" /\ result' = Some(DvmErr(OutOfGas))
    /\ UNCHANGED <<vm, cost_table, input, output>>
    /\ UNCHANGED <<engine, tx, vm_res, gas_used, effects, produced, storage,
                   handler, balances, before>>

\* CompiledModule::deserialize(&module).map_err(..) ... ?
DvmDeserialize ==
    /\ engine = "Dvm" /\ pc = "deserialize"
    /\ Step(<<"deserialize", IsSome(Deserialize(tx.code))>>)
    /\ IF IsSome(Deserialize(tx.code))
       THEN pc' = "check_sender" /\ UNCHANGED result
       ELSE pc' = "done" /\ result' = Some(DvmErr(VMError(MALFORMED, None, None)))
    /\ UNCHANGED <<vm, cost_table, input, output>>
    /\ UNCHANGED <<engine, tx, gas_left, vm_res, gas_used, effects, produced,
                   storage, handler, balances, before>>

\* if sender != *module_id.address() { return Err(..) } ... ?
DvmCheckSender ==
    /\ engine = "Dvm" /\ pc = "check_sender"
    /\ LET module_id == Unwrap(Deserialize(tx.code))
       IN /\ Step(<<"check_sender", tx.sender = module_id.address>>)
          /\ IF tx.sender # module_id.address
             THEN /\ pc' = "done"
                  /\ result' = Some(DvmErr(VMError(MODULE_ADDRESS_DOES_NOT_MATCH_SENDER,
                                                   None, Some(module_id))))
             ELSE pc' = "charge_second" /\ UNCHANGED result
    /\ UNCHANGED <<vm, cost_table, input, output>>
    /\ UNCHANGED <<engine, tx, gas_left, vm_res, gas_used, effects, produced,
                   storage, handler, balances, before>>

\* the second cost_strategy.charge_intrinsic_gas(module.len())?
DvmChargeSecond ==
    /\ engine = "Dvm" /\ pc = "charge_second"
    /\ LET c == ChargeIntrinsicGas(gas_left, Len(tx.code))
       IN /\ gas_left' = c[1]
          /\ Step(<<"charge_intrinsic_gas", Len(tx.code), c[2]>>)
          /\ IF c[2]
             THEN pc' = "session" /\ UNCHANGED result
             ELSE pc' = "done" /\ result' = Some(DvmErr(OutOfGas))
    /\ UNCHANGED <<vm, cost_table, input, output>>
    /\ UNCHANGED <<engine, tx, vm_res, gas_used, effects, produced, storage,
                   handler, balances, before>>

\* a session outcome in Dvm: Err leaves through ?, Ok goes to store_tx_effects
DvmTakeOutcome(o) ==
    /\ gas_left' = o[1]
    /\ vm_res' = o[2]
    /\ IF o[2].ok
       THEN /\ produced' = Some(o[2].effects)
            /\ effects' = o[2].effects
            /\ pc' = "store_tx_effects"
            /\ UNCHANGED result
       ELSE /\ result' = Some(DvmErr(o[2].err))
            /\ pc' = "done"
            /\ UNCHANGED <<produced, effects>>

\* new_session, session.publish_module(..).and_then(|_| session.finish())?
DvmPublishSession ==
    /\ engine = "Dvm" /\ pc = "session"
    /\ \E o \in SessionOutcomes(gas_left, DvmEffectSets) : DvmTakeOutcome(o)
    /\ Step(<<"new_session">>)
    /\ vm' = Load(vm, tx.code)
    /\ UNCHANGED <<cost_table, input, output>>
    /\ UNCHANGED <<engine, tx, gas_used, storage, handler, balances, before>>

\* execute_script: new_session, into_inner, CostStrategy::transaction
DvmExecuteScript ==
    /\ engine = "Dvm" /\ pc = "idle"
    /\ \E max \in 0..MaxGas, script \in ScriptBlobs, sender \in Senders :
          /\ tx' = [kind |-> "script", max_gas_amount |-> max,
                    code |-> script, sender |-> sender]
          /\ gas_left' = max
    /\ pc' = "script"
    /\ before' = Snapshot
    /\ steps' = <<<<"new_session">>>>
    /\ UNCHANGED <<vm, cost_table, input, output>>
    /\ UNCHANGED <<engine, vm_res, gas_used, effects, produced, storage, handler,
                   balances, result>>

\* session.execute_script(..).and_then(|_| session.finish())?
DvmRunScript ==
    /\ engine = "Dvm" /\ pc = "script"
    /\ \E o \in ScriptOutcomes(gas_left, tx.code, DvmEffectSets) : DvmTakeOutcome(o)
    /\ Step(<<"execute_script">>)
    /\ vm' = Load(vm, tx.code)
    /\ UNCHANGED <<cost_table, input, output>>
    /\ UNCHANGED <<engine, tx, gas_used, storage, handler, balances, before>>

\* mutant: a resource that cannot be encoded is passed over and the loop
\* goes on
DvmStoreResourceSkipping ==
    /\ engine = "Dvm" /\ pc = "store_tx_effects" /\ effects.resources # <<>>
    /\ LET r == Head(effects.resources)
           ap == AccessPath(r.addr, ResourceAccessVector(r.struct_tag))
           blob == SimpleSerialize(Unwrap(r.val_opt)[2], Unwrap(r.val_opt)[1])
       IN IF r.val_opt = None
          THEN /\ storage' = StorageRemove(storage, ap)
               /\ Step(<<"remove", ap>>)
          ELSE IF IsSome(blob)
          THEN /\ storage' = StorageInsert(storage, ap, Unwrap(blob))
               /\ Step(<<"insert", ap, Unwrap(blob)>>)
          ELSE UNCHANGED <<storage, steps>>
    /\ effects' = [effects EXCEPT !.resources = Tail(@)]
    /\ UNCHANGED <<vm, cost_table, input, output>>
    /\ UNCHANGED <<engine, pc, result, tx, gas_left, vm_res, gas_used, produced,
                   handler, balances, before>>

\* store_tx_effects, first loop: one (addr, struct_tag, val_opt)
DvmStoreResource ==
    /\ engine = "Dvm" /\ pc = "store_tx_effects" /\ effects.resources # <<>>
    /\ LET r == Head(effects.resources)
           ap == AccessPath(r.addr, ResourceAccessVector(r.struct_tag))
           blob == SimpleSerialize(Unwrap(r.val_opt)[2], Unwrap(r.val_opt)[1])
       IN IF r.val_opt = None
          THEN /\ storage' = StorageRemove(storage, ap)
               /\ Step(<<"remove", ap>>)
               /\ effects' = [effects EXCEPT !.resources = Tail(@)]
               /\ UNCHANGED <<pc, result>>
          ELSE IF IsSome(blob)
          THEN /\ storage' = StorageInsert(storage, ap, Unwrap(blob))
               /\ Step(<<"insert", ap, Unwrap(blob)>>)
               /\ effects' = [effects EXCEPT !.resources = Tail(@)]
               /\ UNCHANGED <<pc, result>>
          ELSE /\ result' = Some(DvmErr(InvariantViolation))
               /\ pc' = "done"
               /\ UNCHANGED <<storage, steps, effects>>
    /\ UNCHANGED <<vm, cost_table, input, output>>
    /\ UNCHANGED <<engine, tx, gas_left, vm_res, gas_used, produced, handler,
                   balances, before>>

\* store_tx_effects, second loop: one (module_id, blob)
DvmStoreModule ==
    /\ engine = "Dvm" /\ pc = "store_tx_effects"
    /\ effects.resources = <<>> /\ effects.modules # <<>>
    /\ LET m == Head(effects.modules)
           ap == AccessPath(m.module_id.address, ModuleAccessVector(m.module_id.name))
       IN /\ storage' = StorageInsert(storage, ap, m.blob)
          /\ Step(<<"insert", ap, m.blob>>)
    /\ effects' = [effects EXCEPT !.modules = Tail(@)]
    /\ UNCHANGED <<vm, cost_table, input, output>>
    /\ UNCHANGED <<engine, pc, tx, gas_left, vm_res, gas_used, produced, handler,
                   balances, before, result>>

\* store_tx_effects returns Ok(())
DvmFinishStore ==
    /\ engine = "Dvm" /\ pc = "store_tx_effects"
    /\ effects.resources = <<>> /\ effects.modules = <<>>
    /\ result' = Some(DvmOk)
    /\ pc' = "done"
    /\ UNCHANGED <<vm, cost_table, input, output>>
    /\ UNCHANGED <<engine, tx, gas_left, vm_res, gas_used, effects, produced,
                   storage, handler, balances, before, steps>>

----------------------------------------------------------------------------

\* Mvm::clear: self.vm.clear()
MvmClear ==
    /\ engine = "Mvm" /\ pc \in {"idle", "done"}
    /\ vm' = FreshVm
    /\ UNCHANGED <<cost_table, input, output>>
    /\ UNCHANGED <<engine, pc, tx, gas_left, vm_res, gas_used, effects, produced,
                   storage, handler, balances, before, steps, result>>

\* Dvm::clear: self.vm = MoveVM::new()
DvmClear ==
    /\ engine = "Dvm" /\ pc \in {"idle", "done"}
    /\ vm' = NewEngine("Dvm", storage).vm
    /\ UNCHANGED <<cost_table, input, output>>
    /\ UNCHANGED <<engine, pc, tx, gas_left, vm_res, gas_used, effects, produced,
                   storage, handler, balances, before, steps, result>>

Next ==
    \/ MvmPublishModule \/ MvmChargeFirst \/ MvmDeserialize \/ MvmCheckSender
    \/ MvmChargeSecond \/ MvmPublishSession \/ MvmExecuteScript \/ MvmRunScript
    \/ HandleVmResult
    \/ ApplyResource \/ ApplyModule \/ DeliverEvent \/ ApplyWalletOp \/ FinishTxEffects
    \/ DvmPublishModule \/ DvmChargeFirst \/ DvmDeserialize \/ DvmCheckSender
    \/ DvmChargeSecond \/ DvmPublishSession \/ DvmExecuteScript \/ DvmRunScript
    \/ DvmStoreResource \/ DvmStoreModule \/ DvmFinishStore
    \/ MvmClear \/ DvmClear

Spec == Init /\ [][Next]_vars

----------------------------------------------------------------------------
(* Vocabulary of the properties *)

Returned == pc = "done"
TheResult == Unwrap(result)

\* the status a returned value carries, for either engine
StatusOf(r) == IF "status_code" \in DOMAIN r THEN r.status_code ELSE r.err.major_status

ReportsGas(r) == "gas_used" \in DOMAIN r

Unchanged == storage = before.storage /\ handler = before.handler
                /\ balances = before.balances

DeclaredAddressDiffers ==
    /\ tx.kind = "module"
    /\ IsSome(Deserialize(tx.code))
    /\ Unwrap(Deserialize(tx.code)).address # tx.sender

----------------------------------------------------------------------------
(* C1 *)

\* C1 as stated: every Mvm::publish_module call whose module deserializes and
\* declares an address other than the sender returns
\* MODULE_ADDRESS_DOES_NOT_MATCH_SENDER with gas_used > 0 and leaves Storage,
\* EventHandler and Bank as they were.
C1_AnyBudget ==
    (engine = "Mvm" /\ Returned /\ DeclaredAddressDiffers)
        => /\ TheResult.status_code = MODULE_ADDRESS_DOES_NOT_MATCH_SENDER
           /\ TheResult.gas_used > 0
           /\ Unchanged

\* C1 amended: the same, for the calls whose max_gas_amount covers the
\* intrinsic cost of the module blob (the first charge succeeds).
C1_AddressMismatch ==
    (/\ engine = "Mvm" /\ Returned /\ DeclaredAddressDiffers
     /\ IntrinsicCost(Len(tx.code)) <= tx.max_gas_amount)
        => /\ TheResult.status_code = MODULE_ADDRESS_DOES_NOT_MATCH_SENDER
           /\ TheResult.sub_status = None
           /\ TheResult.gas_used > 0
           /\ Unchanged

C1_Witness ==
    /\ engine = "Mvm" /\ Returned /\ DeclaredAddressDiffers
    /\ IntrinsicCost(Len(tx.code)) <= tx.max_gas_amount
    /\ TheResult.status_code = MODULE_ADDRESS_DOES_NOT_MATCH_SENDER
    /\ storage = [k \in Keys |-> Some(<<0>>)]

----------------------------------------------------------------------------
(* C2 *)

\* C2: every publish_module and execute_script call that returns reports
\* gas_used = max_gas_amount - remaining gas, whatever the outcome.
C2_GasAlwaysReported ==
    Returned => /\ ReportsGas(TheResult)
                /\ TheResult.gas_used = tx.max_gas_amount - gas_left

----------------------------------------------------------------------------
(* C3 *)

\* C3: within one transaction the remaining gas never increases from one step
\* to the next; in every state 0 <= gas used <= max_gas_amount, for the meter
\* and for the figure Mvm computes and returns.
C3_GasBounded ==
    /\ [](/\ 0 <= tx.max_gas_amount - gas_left
          /\ tx.max_gas_amount - gas_left <= tx.max_gas_amount
          /\ 0 <= gas_used /\ gas_used <= tx.max_gas_amount
          /\ (engine = "Mvm" /\ Returned)
                => (0 <= TheResult.gas_used /\ TheResult.gas_used <= tx.max_gas_amount))
    /\ [][pc # "idle" => gas_left' <= gas_left]_vars

\* a call that returns EXECUTED after the session had gas left over
C3_Witness ==
    /\ engine = "Mvm" /\ Returned
    /\ TheResult.status_code = EXECUTED
    /\ 0 < TheResult.gas_used /\ TheResult.gas_used < tx.max_gas_amount

----------------------------------------------------------------------------
(* C4 *)

IsCharge(s) == s[1] = "charge_intrinsic_gas"
FailedCharge(s) == IsCharge(s) /\ ~s[3]
Charges == {i \in DOMAIN steps : IsCharge(steps[i])}
StepNames == {steps[i][1] : i \in DOMAIN steps}

\* the calls made on Storage, EventHandler and Bank
IsCapabilityCall(s) == s[1] \in {"remove", "insert", "on_event", "deposit", "withdraw"}
CapabilityCalls == SelectSeq(steps, IsCapabilityCall)

\* C4: in publish_module the first intrinsic charge is the first thing done;
\* when it fails nothing else happens: no deserialization, no sender check, no
\* session, no Storage, EventHandler or Bank call; when the second charge
\* fails no session is opened and no capability is called.
C4_ChargeBeforeWork ==
    tx.kind = "module" =>
        /\ steps # <<>> => IsCharge(steps[1])
        /\ \A i \in DOMAIN steps : FailedCharge(steps[i]) =>
              /\ i = Len(steps)
              /\ "new_session" \notin StepNames
              /\ CapabilityCalls = <<>>
              /\ Unchanged
              /\ i = 1 => StepNames = {"charge_intrinsic_gas"}
        /\ (Returned /\ \E i \in DOMAIN steps : FailedCharge(steps[i]))
              => StatusOf(TheResult) = OUT_OF_GAS

\* the second charge failed, after the sender check had passed
C4_Witness ==
    /\ tx.kind = "module" /\ Returned
    /\ Len(steps) = 4 /\ FailedCharge(steps[4])
    /\ StatusOf(TheResult) = OUT_OF_GAS

----------------------------------------------------------------------------
(* C5 *)

\* C5: publish_module charges the blob length once before the header is
\* deserialized and once more, for the same size, after the sender check
\* passed and before the session is opened: a call ending in malformed-module
\* or address-mismatch has made one charge, a call that reached the
\* interpreter has made two.
C5_TwoCharges ==
    tx.kind = "module" =>
        /\ \A i \in Charges : steps[i][2] = Len(tx.code)
        /\ \A i \in DOMAIN steps :
              /\ steps[i][1] = "deserialize" => {j \in Charges : j < i} = {1}
              /\ steps[i][1] = "new_session" =>
                    /\ {j \in Charges : j < i} = {1, i - 1}
                    /\ steps[i - 2] = <<"check_sender", TRUE>>
        /\ (Returned /\ StatusOf(TheResult) \in {MALFORMED, MODULE_ADDRESS_DOES_NOT_MATCH_SENDER})
              => Cardinality(Charges) = 1
        /\ "new_session" \in StepNames => Cardinality(Charges) = 2

C5_Witness ==
    /\ tx.kind = "module" /\ Returned
    /\ "new_session" \in StepNames
    /\ Cardinality(Charges) = 2
    /\ gas_left = tx.max_gas_amount - 2 * IntrinsicCost(Len(tx.code))

----------------------------------------------------------------------------
(* C6 *)

----------------------------------------------------------------------------
(* Effect application, as the properties describe it *)

MapSeq(seq, F(_)) == [i \in 1..Len(seq) |-> F(seq[i])]

\* the first index whose element fails P, Len(seq) + 1 when none does
FirstNot(seq, P(_)) ==
    LET bad == {i \in 1..Len(seq) : ~P(seq[i])}
    IN IF bad = {} THEN Len(seq) + 1 ELSE CHOOSE i \in bad : \A j \in bad : i <= j

ResourceEncodable(r) ==
    r.val_opt = None
        \/ IsSome(SimpleSerialize(Unwrap(r.val_opt)[2], Unwrap(r.val_opt)[1]))
EventEncodable(ev) == IsSome(SimpleSerialize(ev.val, ev.ty_layout))

ResourceCall(r) ==
    LET ap == AccessPath(r.addr, ResourceAccessVector(r.struct_tag))
    IN IF r.val_opt = None THEN <<"remove", ap>>
       ELSE <<"insert", ap,
              Unwrap(SimpleSerialize(Unwrap(r.val_opt)[2], Unwrap(r.val_opt)[1]))>>
ModuleCall(m) ==
    <<"insert", AccessPath(m.module_id.address, ModuleAccessVector(m.module_id.name)),
      m.blob>>
EventCall(ev) ==
    <<"on_event", ev.address, ev.ty_tag,
      Unwrap(SimpleSerialize(ev.val, ev.ty_layout)), ev.caller>>
OpCall(w) ==
    <<IF w[2].kind = "Deposit" THEN "deposit" ELSE "withdraw", w[1], w[2].amount>>

\* what the handler holds for a delivered event
Delivered(call) == <<call[2], call[3], call[4], call[5]>>

RECURSIVE Replay(_, _)
Replay(data, calls) ==
    IF calls = <<>> THEN data
    ELSE LET c == Head(calls)
         IN Replay(IF c[1] = "remove" THEN [data EXCEPT ![c[2]] = None]
                   ELSE [data EXCEPT ![c[2]] = Some(c[3])], Tail(calls))

\* the phase a capability call belongs to
Rank(s) ==
    CASE s[1] = "remove" -> 1
      [] s[1] = "insert" -> (IF s[2] \in ResourceKeys THEN 1 ELSE 2)
      [] s[1] = "on_event" -> 3
      [] OTHER -> 4

Ranks == {Rank(CapabilityCalls[i]) : i \in DOMAIN CapabilityCalls}

Applying == engine = "Mvm" /\ IsSome(produced) /\ pc \in {"handle_tx_effects", "done", "panic"}
Ended == engine = "Mvm" /\ IsSome(produced) /\ pc \in {"done", "panic"}
Produced == Unwrap(produced)
BadResource == FirstNot(Produced.resources, ResourceEncodable)
BadEvent == FirstNot(Produced.events, EventEncodable)
ResourceFails == BadResource <= Len(Produced.resources)
EventFails == ~ResourceFails /\ BadEvent <= Len(Produced.events)

----------------------------------------------------------------------------
(* C7 *)

\* C7: effect application runs in four ordered phases: every resource write
\* or delete comes before every module insert, every module insert before
\* every on_event, every on_event before every Bank call, and no call of a
\* later phase is made while an earlier phase has calls left to make.
C7_PhaseOrder ==
    Applying =>
        /\ \A i, j \in DOMAIN CapabilityCalls :
              i < j => Rank(CapabilityCalls[i]) <= Rank(CapabilityCalls[j])
        /\ (pc = "handle_tx_effects" /\ Ranks \cap {2, 3, 4} # {}) => effects.resources = <<>>
        /\ (pc = "handle_tx_effects" /\ Ranks \cap {3, 4} # {}) => effects.modules = <<>>
        /\ (pc = "handle_tx_effects" /\ 4 \in Ranks) => effects.events = <<>>

C7_Witness == Applying /\ Returned /\ Ranks = {1, 2, 3, 4}

----------------------------------------------------------------------------
(* C8 *)

\* C8: a failure in a later phase rolls nothing back and stops the rest: when
\* the k-th event cannot be encoded, every resource and module mutation and
\* the first k-1 deliveries stay, no further event is delivered and no balance
\* operation is applied; when a resource value cannot be encoded, the resource
\* mutations before it stay and no module insert, delivery or balance
\* operation happens.  The status is UNKNOWN_INVARIANT_VIOLATION_ERROR.
C8_NoRollback ==
    Ended =>
        LET e == Produced
            upto_resource == MapSeq(SubSeq(e.resources, 1, BadResource - 1), ResourceCall)
            stored == MapSeq(e.resources, ResourceCall) \o MapSeq(e.modules, ModuleCall)
            sent == MapSeq(SubSeq(e.events, 1, BadEvent - 1), EventCall)
        IN /\ ResourceFails =>
                /\ Returned
                /\ TheResult.status_code = UNKNOWN_INVARIANT_VIOLATION_ERROR
                /\ CapabilityCalls = upto_resource
                /\ storage = Replay(before.storage, upto_resource)
                /\ handler = before.handler
                /\ balances = before.balances
           /\ EventFails =>
                /\ Returned
                /\ TheResult.status_code = UNKNOWN_INVARIANT_VIOLATION_ERROR
                /\ CapabilityCalls = stored \o sent
                /\ storage = Replay(before.storage, stored)
                /\ handler = before.handler \o MapSeq(sent, Delivered)
                /\ balances = before.balances

\* the second event fails after a resource, a module and an event went through,
\* with balance operations still waiting
C8_Witness ==
    /\ Ended /\ EventFails /\ BadEvent = 2
    /\ Produced.resources # <<>> /\ Produced.modules # <<>>
    /\ Produced.wallet_ops # <<>>
    /\ storage # before.storage
    /\ Len(handler) = 1

----------------------------------------------------------------------------
(* C9 *)

AllEncodable == ~ResourceFails /\ ~EventFails

StorageCalls == SelectSeq(CapabilityCalls, LAMBDA s : s[1] \in {"remove", "insert"})
EventCalls == SelectSeq(CapabilityCalls, LAMBDA s : s[1] = "on_event")
BankCalls == SelectSeq(CapabilityCalls, LAMBDA s : s[1] \in {"deposit", "withdraw"})

\* no Deposit of the sequence meets a balance below its amount
RECURSIVE NoOverdraft(_, _)
NoOverdraft(bank, ops) ==
    IF ops = <<>> THEN TRUE
    ELSE LET id == Head(ops)[1]
             op == Head(ops)[2]
             b == IF op.kind = "Deposit" THEN BankDeposit(bank, id, op.amount)
                  ELSE BankWithdraw(bank, id, op.amount)
         IN ~b.panic /\ NoOverdraft(b.balances, Tail(ops))

\* N + M storage mutations, K deliveries and P Bank calls, each in the order
\* of the effect set
EffectsApplied ==
    LET e == Produced
    IN /\ Len(StorageCalls) = Len(e.resources) + Len(e.modules)
       /\ StorageCalls = MapSeq(e.resources, ResourceCall) \o MapSeq(e.modules, ModuleCall)
       /\ Len(EventCalls) = Len(e.events)
       /\ EventCalls = MapSeq(e.events, EventCall)
       /\ handler = before.handler \o MapSeq(EventCalls, Delivered)
       /\ Len(BankCalls) = Len(e.wallet_ops)
       /\ BankCalls = MapSeq(e.wallet_ops, OpCall)

\* C9 as stated: applying an effect set of N resource writes or deletes, M
\* module writes, K events and P balance operations, all encodable, makes
\* N + M storage mutation calls, K on_event calls in emission order and P Bank
\* calls in their order, and the status is EXECUTED.
C9_AnyEffects ==
    (Ended /\ AllEncodable)
        => /\ EffectsApplied
           /\ Returned /\ TheResult.status_code = EXECUTED

\* C9 amended: the same, for the effect sets in which no Deposit exceeds the
\* balance it meets.  A Deposit that does makes the bank panic: the calls up
\* to and including it have been made, the later ones are not, and the call
\* returns nothing.
C9_EffectsApplied ==
    /\ (Ended /\ AllEncodable /\ NoOverdraft(before.balances, Produced.wallet_ops))
          => /\ EffectsApplied
             /\ Returned /\ TheResult = VmResult(EXECUTED, None, gas_used)
    /\ (Ended /\ AllEncodable /\ ~NoOverdraft(before.balances, Produced.wallet_ops))
          => /\ pc = "panic" /\ result = None
             /\ BankCalls = SubSeq(MapSeq(Produced.wallet_ops, OpCall), 1, Len(BankCalls))
             /\ BankCalls[Len(BankCalls)][1] = "deposit"

\* Scenario C and more: one resource, a module, two events, two balance
\* operations
C9_Witness ==
    /\ Ended /\ AllEncodable /\ Returned
    /\ NoOverdraft(before.balances, Produced.wallet_ops)
    /\ Len(Produced.resources) = 1 /\ Len(Produced.modules) = 1
    /\ Len(Produced.events) = 2 /\ Len(Produced.wallet_ops) = 2
    /\ Len(handler) = 2
    /\ TheResult.status_code = EXECUTED

----------------------------------------------------------------------------
(* C10 *)

\* every error of the pre-checks or of the session is returned as a VmResult
\* carrying its status, its sub-status and the gas used
ErrorsReturned ==
    (engine = "Mvm" /\ Returned /\ ~vm_res.ok)
        => TheResult = VmResult(vm_res.err.major_status, vm_res.err.sub_status,
                                tx.max_gas_amount - gas_left)

----------------------------------------------------------------------------
(* C11 *)

\* C11: a call whose pre-checks or session end in an error, so that no
\* TransactionEffects exist, never enters effect application: Storage gets no
\* insert or remove, EventHandler no on_event, Bank no deposit or withdraw.
\* Storage, handler and bank change through the calls of effect application
\* only.
C11_NoEffectsOnError ==
    /\ produced = None => (CapabilityCalls = <<>> /\ Unchanged)
    /\ CapabilityCalls # <<>> =>
          /\ IsSome(produced)
          /\ pc \in {"handle_tx_effects", "store_tx_effects", "done", "panic"}
    /\ storage = Replay(before.storage, StorageCalls)
    /\ handler = before.handler \o MapSeq(EventCalls, Delivered)
    /\ BankCalls = <<>> => balances = before.balances

\* the session ran and aborted over a store that holds data
C11_Witness ==
    /\ Returned /\ produced = None
    /\ "new_session" \in StepNames
    /\ StatusOf(TheResult) = ABORTED
    /\ storage = [k \in Keys |-> Some(<<0>>)]

----------------------------------------------------------------------------
(* C12 *)

\* C12: the VmResult is EXECUTED without sub-status exactly when the session
\* succeeded and effect application succeeded; otherwise it carries the major
\* status and the sub-status of the error that occurred, unchanged.
C12_StatusPassedThrough ==
    (engine = "Mvm" /\ Returned) =>
        /\ (TheResult.status_code = EXECUTED /\ TheResult.sub_status = None)
              <=> (vm_res.ok /\ AllEncodable)
        /\ ~vm_res.ok =>
              /\ TheResult.status_code = vm_res.err.major_status
              /\ TheResult.sub_status = vm_res.err.sub_status
        /\ (vm_res.ok /\ ~AllEncodable) =>
              /\ TheResult.status_code = InvariantViolation.major_status
              /\ TheResult.sub_status = InvariantViolation.sub_status

\* an abort of the session with a sub-status
C12_Witness ==
    /\ engine = "Mvm" /\ Returned
    /\ TheResult.status_code = ABORTED
    /\ TheResult.sub_status = Some(1)

----------------------------------------------------------------------------
(* C20 *)

\* C20: charge_intrinsic_gas fails with OutOfGas exactly when the cost of the
\* given size exceeds the remaining gas: when cost <= remaining it succeeds,
\* deducts the cost and the call goes on; when cost > remaining it fails, the
\* call goes no further and ends in OUT_OF_GAS.
C20_ChargeExact ==
    [][(pc \in {"charge_first", "charge_second"}) =>
          (LET cost == IntrinsicCost(Len(tx.code))
           IN IF cost <= gas_left
              THEN /\ gas_left' = gas_left - cost
                   /\ pc' = (IF pc = "charge_first" THEN "deserialize" ELSE "session")
                   /\ result' = None
              ELSE IF engine = "Mvm"
              THEN (pc' = "handle_vm_result" /\ vm_res' = Err(OutOfGas))
              ELSE (pc' = "done" /\ result' = Some(DvmErr(OutOfGas))))]_vars

\* the second charge took exactly what was left
C20_Witness ==
    /\ tx.kind = "module" /\ pc = "session"
    /\ gas_left = 0
    /\ tx.max_gas_amount = 2 * IntrinsicCost(Len(tx.code))

----------------------------------------------------------------------------
(* C13 *)

\* byte order of two keys
RECURSIVE BytesLess(_, _)
BytesLess(a, b) ==
    IF a = <<>> THEN b # <<>>
    ELSE IF b = <<>> THEN FALSE
    ELSE IF Head(a) # Head(b) THEN Head(a) < Head(b)
    ELSE BytesLess(Tail(a), Tail(b))

\* the storage mutations an effect set stands for: its resources up to the
\* first that cannot be encoded, then, when none fails, its modules
ExpectedStorageCalls(e) ==
    LET bad == FirstNot(e.resources, ResourceEncodable)
    IN IF bad <= Len(e.resources)
       THEN MapSeq(SubSeq(e.resources, 1, bad - 1), ResourceCall)
       ELSE MapSeq(e.resources, ResourceCall) \o MapSeq(e.modules, ModuleCall)

----------------------------------------------------------------------------
(* C17 *)

\* the call ran a session, which loaded code into the MoveVM
SessionRan ==
    \/ tx.kind = "module" /\ "new_session" \in StepNames /\ pc # "session"
    \/ "execute_script" \in StepNames

\* clear() has been called after a call that ran a session
Cleared == pc = "done" /\ SessionRan /\ vm = FreshVm

\* C17: clear() leaves Storage, Bank balances and delivered events as they
\* were, and the engine after it is the engine a fresh construction over the
\* same storage gives: same MoveVM, same cost table.
C17_ClearedIsFresh ==
    Cleared =>
        /\ storage = Replay(before.storage, StorageCalls)
        /\ handler = before.handler \o MapSeq(EventCalls, Delivered)
        /\ BankCalls = <<>> => balances = before.balances
        /\ vm = NewEngine(engine, storage).vm
        /\ cost_table = NewEngine(engine, storage).cost_table

----------------------------------------------------------------------------
(* A host driving a BankMock directly: mvm/tests/common/mock.rs *)

HostWallets == [address : Addresses, ticker : Tickers]
HostAmounts == {10, 15}

\* BankMock::default(), and nothing else in motion
BankInit ==
    /\ engine = "Mvm"
    /\ pc = "host"
    /\ tx = NoTx
    /\ gas_left = 0
    /\ vm_res = Err(VMError(EXECUTED, None, None))
    /\ gas_used = 0
    /\ effects = EmptyEffects
    /\ produced = None
    /\ storage = [k \in Keys |-> None]
    /\ handler = <<>>
    /\ balances = [w \in HostWallets |-> None]
    /\ before = [storage |-> storage, handler |-> <<>>, balances |-> balances]
    /\ steps = <<>>
    /\ result = None
    /\ vm = FreshVm
    /\ cost_table = DefaultCostTable
    /\ input = None
    /\ output = None

\* a mutating call, which returns nothing: before keeps the balances the
\* call met
HostCall(name, id, amount, b) ==
    /\ balances' = b.balances
    /\ pc' = IF b.panic THEN "panic" ELSE pc
    /\ before' = [before EXCEPT !.balances = balances]
    /\ Step(<<name, id, amount>>)
    /\ input' = None /\ output' = None
    /\ UNCHANGED <<engine, tx, gas_left, vm_res, gas_used, effects, produced,
                   storage, handler, result, vm, cost_table>>

HostSetBalance ==
    /\ pc = "host" /\ Len(steps) < MaxCalls
    /\ \E id \in HostWallets, amount \in HostAmounts :
          HostCall("set_balance", id, amount,
                   [balances |-> BankSetBalance(balances, id, amount), panic |-> FALSE])

HostDeposit ==
    /\ pc = "host" /\ Len(steps) < MaxCalls
    /\ \E id \in HostWallets, amount \in HostAmounts :
          HostCall("deposit", id, amount, BankDeposit(balances, id, amount))

HostWithdraw ==
    /\ pc = "host" /\ Len(steps) < MaxCalls
    /\ \E id \in HostWallets, amount \in HostAmounts :
          HostCall("withdraw", id, amount, BankWithdraw(balances, id, amount))

\* get_balance, also by a host that caught the panic of a deposit
HostGetBalance ==
    /\ pc \in {"host", "panic"}
    /\ \E id \in HostWallets :
          /\ input' = Some(id)
          /\ output' = Some(GetBalance(balances, id))
    /\ UNCHANGED <<engine, pc, tx, gas_left, vm_res, gas_used, effects, produced,
                   storage, handler, balances, before, steps, result, vm, cost_table>>

BankNext == HostSetBalance \/ HostDeposit \/ HostWithdraw \/ HostGetBalance

BankSpec == BankInit /\ [][BankNext]_vars

----------------------------------------------------------------------------
(* C14 *)

\* the balance a call met, zero for a wallet without entry
Met(bank, id) == IF IsSome(bank[id]) THEN Unwrap(bank[id]) ELSE 0

LastCall == steps[Len(steps)]

\* C14: after any sequence of deposit, withdraw and set_balance calls every
\* stored balance is non-negative: a deposit above the balance it meets takes
\* the fatal path and leaves the stored balance as it met it, neither clamped
\* nor wrapped; no other call takes the fatal path.
C14_NeverNegative ==
    /\ \A w \in DOMAIN balances : IsSome(balances[w]) => Unwrap(balances[w]) >= 0
    /\ steps # <<>> =>
          LET overdebit == /\ LastCall[1] = "deposit"
                           /\ Met(before.balances, LastCall[2]) < LastCall[3]
          IN /\ overdebit <=> pc = "panic"
             /\ overdebit => balances[LastCall[2]] = Some(Met(before.balances, LastCall[2]))

\* a deposit of 15 met a balance of 10
C14_Witness ==
    /\ pc = "panic"
    /\ LastCall[1] = "deposit" /\ LastCall[3] = 15
    /\ before.balances[LastCall[2]] = Some(10)

----------------------------------------------------------------------------
(* C15 *)

\* the balances a sequence of successful calls leaves in an empty bank
RECURSIVE Ledger(_)
Ledger(calls) ==
    IF calls = <<>> THEN [w \in HostWallets |-> None]
    ELSE LET n == Len(calls)
             c == calls[n]
             bank == Ledger(SubSeq(calls, 1, n - 1))
         IN [bank EXCEPT ![c[2]] =
                CASE c[1] = "set_balance" -> Some(c[3])
                  [] c[1] = "deposit" -> Some(Met(bank, c[2]) - c[3])
                  [] OTHER -> Some(Met(bank, c[2]) + c[3])]

WalletA == [address |-> 1, ticker |-> 1]

\* C15: a fatal deposit changes no existing balance: every wallet that had an
\* entry holds what the successful calls before it left there, and that is
\* what get_balance returns afterwards.
C15_FatalDepositKeepsBalances ==
    pc = "panic" =>
        /\ \A w \in HostWallets :
              IsSome(before.balances[w]) =>
                  /\ balances[w] = before.balances[w]
                  /\ balances[w] = Ledger(SubSeq(steps, 1, Len(steps) - 1))[w]
        /\ (IsSome(output) /\ IsSome(before.balances[Unwrap(input)]))
              => Unwrap(output) = Ledger(SubSeq(steps, 1, Len(steps) - 1))[Unwrap(input)]

\* balance 15, deposit 10, deposit 10: the second is fatal and get_balance
\* returns 5
C15_Witness ==
    /\ pc = "panic"
    /\ steps = <<<<"set_balance", WalletA, 15>>, <<"deposit", WalletA, 10>>,
                <<"deposit", WalletA, 10>>>>
    /\ balances[WalletA] = Some(5)
    /\ input = Some(WalletA) /\ output = Some(Some(5))

----------------------------------------------------------------------------
(* The canonical codec: bcs::to_bytes / bcs::from_bytes *)

\* a shape is its kind and the shapes it is made of
U8Shape == [k |-> "u8", sub |-> <<>>]
U16Shape == [k |-> "u16", sub |-> <<>>]
SeqOf(s) == [k |-> "seq", sub |-> <<s>>]
OptionOf(s) == [k |-> "opt", sub |-> <<s>>]
RecordOf(fields) == [k |-> "rec", sub |-> fields]
UnionOf(variants) == [k |-> "enum", sub |-> variants]

\* ULEB128 of a length or a variant index
RECURSIVE Uleb(_)
Uleb(n) == IF n < 128 THEN <<n>> ELSE <<128 + (n % 128)>> \o Uleb(n \div 128)

RECURSIVE ToBytes(_, _)
RECURSIVE EncodeAll(_, _)
\* the fields of a record, or the elements of a sequence, one after the
\* other: the first half, then the second half
EncodeAll(shapes, vals) ==
    LET n == Len(shapes)
    IN IF n = 0 THEN <<>>
       ELSE IF n = 1 THEN ToBytes(shapes[1], vals[1])
       ELSE EncodeAll(SubSeq(shapes, 1, n \div 2), SubSeq(vals, 1, n \div 2))
               \o EncodeAll(SubSeq(shapes, n \div 2 + 1, n), SubSeq(vals, n \div 2 + 1, n))

\* to_bytes of a value of the given shape
ToBytes(shape, v) ==
    CASE shape.k = "u8" -> <<v>>
      [] shape.k = "u16" -> <<v % 256, v \div 256>>
      [] shape.k = "seq" ->
            Uleb(Len(v)) \o EncodeAll([i \in 1..Len(v) |-> shape.sub[1]], v)
      [] shape.k = "opt" ->
            IF v = <<>> THEN <<0>> ELSE <<1>> \o ToBytes(shape.sub[1], v[1])
      [] shape.k = "rec" -> EncodeAll(shape.sub, v)
      [] OTHER -> Uleb(v.tag) \o ToBytes(shape.sub[v.tag + 1], v.val)

\* what a decoder hands on: the value read and the bytes left
Read(val, rest) == [ok |-> TRUE, val |-> val, rest |-> rest]
Failed == [ok |-> FALSE, val |-> <<>>, rest |-> <<>>]

\* ULEB128 of a u32: at most five bytes, no zero byte at the top
RECURSIVE DecodeUleb(_, _, _)
DecodeUleb(bytes, unit, sum) ==
    IF bytes = <<>> THEN Failed
    ELSE LET b == Head(bytes)
         IN IF b < 128
            THEN IF (b = 0 /\ unit > 1) \/ (unit = 128 * 128 * 128 * 128 /\ b > 15)
                 THEN Failed
                 ELSE Read(sum + b * unit, Tail(bytes))
            ELSE IF unit = 128 * 128 * 128 * 128 THEN Failed
                 ELSE DecodeUleb(Tail(bytes), unit * 128, sum + (b - 128) * unit)

RECURSIVE Decode(_, _)
RECURSIVE DecodeAll(_, _)
\* the fields of a record, or the elements of a sequence, read one after the
\* other: the first half, then the second half from what the first left
DecodeAll(shapes, bytes) ==
    LET n == Len(shapes)
    IN IF n = 0 THEN Read(<<>>, bytes)
       ELSE IF n = 1
       THEN LET h == Decode(shapes[1], bytes)
            IN IF h.ok THEN Read(<<h.val>>, h.rest) ELSE Failed
       ELSE LET a == DecodeAll(SubSeq(shapes, 1, n \div 2), bytes)
            IN IF ~a.ok THEN Failed
               ELSE LET b == DecodeAll(SubSeq(shapes, n \div 2 + 1, n), a.rest)
                    IN IF ~b.ok THEN Failed ELSE Read(a.val \o b.val, b.rest)

\* one value of the given shape read from the front of the bytes
Decode(shape, bytes) ==
    CASE shape.k = "u8" ->
            IF Len(bytes) < 1 THEN Failed ELSE Read(bytes[1], Tail(bytes))
      [] shape.k = "u16" ->
            IF Len(bytes) < 2 THEN Failed
            ELSE Read(bytes[1] + 256 * bytes[2], Tail(Tail(bytes)))
      [] shape.k = "seq" ->
            LET n == DecodeUleb(bytes, 1, 0)
            IN IF ~n.ok \/ n.val > Len(n.rest) THEN Failed
               ELSE DecodeAll([i \in 1..n.val |-> shape.sub[1]], n.rest)
      [] shape.k = "opt" ->
            IF bytes = <<>> THEN Failed
            ELSE IF bytes[1] = 0 THEN Read(<<>>, Tail(bytes))
            ELSE IF bytes[1] = 1
            THEN LET d == Decode(shape.sub[1], Tail(bytes))
                 IN IF d.ok THEN Read(<<d.val>>, d.rest) ELSE Failed
            ELSE Failed
      [] shape.k = "rec" -> DecodeAll(shape.sub, bytes)
      [] OTHER ->
            LET n == DecodeUleb(bytes, 1, 0)
            IN IF ~n.ok \/ n.val >= Len(shape.sub) THEN Failed
               ELSE LET d == Decode(shape.sub[n.val + 1], n.rest)
                    IN IF d.ok THEN Read([tag |-> n.val, val |-> d.val], d.rest)
                       ELSE Failed

\* mutant: bytes left over after the value are let through
FromBytesLenient(shape, bytes) ==
    LET d == Decode(shape, bytes)
    IN IF d.ok THEN Some(d.val) ELSE None

\* from_bytes: Some(value) for Ok, when the bytes hold exactly one value of
\* the shape; None for Err
FromBytes(shape, bytes) ==
    LET d == Decode(shape, bytes)
    IN IF d.ok /\ d.rest = <<>> THEN Some(d.val) ELSE None

\* the shapes the codec is exercised with: integers, sequences, an optional,
\* a record, a nested record, a tagged union
PairShape == RecordOf(<<U8Shape, U16Shape>>)
Shapes ==
    {U8Shape, U16Shape, SeqOf(U8Shape), SeqOf(U16Shape), OptionOf(U8Shape),
     PairShape,
     RecordOf(<<PairShape, OptionOf(U8Shape), SeqOf(U8Shape)>>),
     UnionOf(<<U8Shape, PairShape, SeqOf(U16Shape)>>)}

\* the values of a shape that is no tagged union; the sequences of u8 have
\* one of 128 elements among them, whose length takes two ULEB128 bytes
RECURSIVE Values(_)
RECURSIVE ValuesAll(_)
ValuesAll(shapes) ==
    IF shapes = <<>> THEN {<<>>}
    ELSE {<<h>> \o t : h \in Values(Head(shapes)), t \in ValuesAll(Tail(shapes))}

Values(shape) ==
    CASE shape.k = "u8" -> {0, 1, 255}
      [] shape.k = "u16" -> {0, 255, 256, 65535}
      [] shape.k = "seq" ->
            UNION {[1..n -> Values(shape.sub[1])] : n \in 0..MaxSeq}
                \cup (IF shape.sub[1] = U8Shape THEN {[i \in 1..128 |-> 0]} ELSE {})
      [] shape.k = "opt" -> {<<>>} \cup {<<v>> : v \in Values(shape.sub[1])}
      [] OTHER -> ValuesAll(shape.sub)

\* a byte put behind an encoding
TrailingBytes == {0, 1, 255}

CodecInit ==
    /\ engine = "Mvm"
    /\ pc = "codec"
    /\ tx = NoTx
    /\ gas_left = 0
    /\ vm_res = Err(VMError(EXECUTED, None, None))
    /\ gas_used = 0
    /\ effects = EmptyEffects
    /\ produced = None
    /\ storage = [k \in Keys |-> None]
    /\ handler = <<>>
    /\ balances = [w \in WalletIds |-> None]
    /\ before = [storage |-> storage, handler |-> <<>>, balances |-> balances]
    /\ steps = <<>>
    /\ result = None
    /\ vm = FreshVm
    /\ cost_table = DefaultCostTable
    /\ \E shape \in Shapes :
          IF shape.k = "enum"
          THEN \E i \in 1..Len(shape.sub) : \E v \in Values(shape.sub[i]) :
                  input = [shape |-> shape, val |-> [tag |-> i - 1, val |-> v]]
          ELSE \E v \in Values(shape) : input = [shape |-> shape, val |-> v]
    /\ output = None

\* what applying a function to an argument leaves alone
PureFrame ==
    UNCHANGED <<engine, tx, gas_left, vm_res, gas_used, effects, produced, storage,
                handler, balances, before, vm, cost_table, input>>

\* let bytes = to_bytes(&t).unwrap()
CodecToBytes ==
    /\ pc = "codec"
    /\ output' = Some(ToBytes(input.shape, input.val))
    /\ Step(<<"to_bytes">>)
    /\ pc' = "encoded"
    /\ UNCHANGED result
    /\ PureFrame

\* let s: T = from_bytes(&bytes).unwrap(); assert_eq!(t, s)
CodecFromBytes ==
    /\ pc = "encoded"
    /\ LET s == FromBytes(input.shape, Unwrap(output))
       IN /\ result' = Some(s)
          /\ pc' = IF IsSome(s) /\ Unwrap(s) = input.val THEN "passed" ELSE "panicked"
    /\ Step(<<"from_bytes", "whole", Unwrap(output)>>)
    /\ UNCHANGED output
    /\ PureFrame

\* from_bytes of an encoding cut short
CodecFromTruncated ==
    /\ pc = "encoded"
    /\ \E n \in 0..(Len(Unwrap(output)) - 1) :
          LET bytes == SubSeq(Unwrap(output), 1, n)
          IN /\ result' = Some(FromBytes(input.shape, bytes))
             /\ Step(<<"from_bytes", "truncated", bytes>>)
    /\ pc' = "decoded"
    /\ UNCHANGED output
    /\ PureFrame

\* from_bytes of an encoding with one more byte behind it
CodecFromTrailing ==
    /\ pc = "encoded"
    /\ \E b \in TrailingBytes :
          LET bytes == Append(Unwrap(output), b)
          IN /\ result' = Some(FromBytes(input.shape, bytes))
             /\ Step(<<"from_bytes", "trailing", bytes>>)
    /\ pc' = "decoded"
    /\ UNCHANGED output
    /\ PureFrame

CodecNext == CodecToBytes \/ CodecFromBytes \/ CodecFromTruncated \/ CodecFromTrailing

CodecSpec == CodecInit /\ [][CodecNext]_vars

----------------------------------------------------------------------------
(* C18 *)

\* C18: for every supported shape (fixed-width integers, sequences, optionals,
\* nested records, tagged unions) decoding the encoding of a value gives the
\* value back, and decoding returns an error for an encoding cut short and
\* for an encoding with a byte behind it.
C18_RoundTrip ==
    /\ pc # "panicked"
    /\ pc = "passed" => (IsSome(Unwrap(result)) /\ Unwrap(Unwrap(result)) = input.val)
    /\ pc = "decoded" => Unwrap(result) = None

\* a nested record with a sequence of 128 elements went round, through a
\* length of two ULEB128 bytes
C18_Witness ==
    /\ pc = "passed"
    /\ input.shape.k = "rec" /\ Len(input.val) = 3
    /\ Len(input.val[3]) = 128
    /\ SubSeq(Unwrap(output), 5, 6) = <<128, 1>>

----------------------------------------------------------------------------
(* On-chain configs: types/src/on_chain_config/mod.rs *)

\* "DiemConfig", as the bytes of its characters
DiemConfigName == <<68, 105, 101, 109, 67, 111, 110, 102, 105, 103>>

\* the hex digits of CONFIG_ADDRESS_STR, "0xA550C18"
ConfigAddressStr == <<10, 5, 5, 0, 12, 1, 8>>
CoreCodeAddress == 1

\* AccountAddress::from_hex_literal: at most 32 hex digits behind "0x"
RECURSIVE HexValue(_)
HexValue(digits) ==
    IF digits = <<>> THEN 0
    ELSE 16 * HexValue(SubSeq(digits, 1, Len(digits) - 1)) + digits[Len(digits)]
FromHexLiteral(digits) ==
    IF digits = <<>> \/ Len(digits) > 32 THEN None ELSE Some(HexValue(digits))

\* Identifier::new
NewIdentifier(name) == IF name = <<>> THEN None ELSE Some(name)

\* ON_CHAIN_CONFIG_REGISTRY
ConfigTypes == {"VMConfig", "VMPublishingOption", "DiemVersion", "RegisteredCurrencies"}
\* IDENTIFIER of each of them: "DiemVMConfig", "DiemTransactionPublishingOption",
\* "DiemVersion", "RegisteredCurrencies"
Identifier(T) ==
    CASE T = "VMConfig" -> <<68, 105, 101, 109, 86, 77, 67, 111, 110, 102, 105, 103>>
      [] T = "VMPublishingOption" ->
            <<68, 105, 101, 109, 84, 114, 97, 110, 115, 97, 99, 116, 105, 111, 110, 80,
              117, 98, 108, 105, 115, 104, 105, 110, 103, 79, 112, 116, 105, 111, 110>>
      [] T = "DiemVersion" -> <<68, 105, 101, 109, 86, 101, 114, 115, 105, 111, 110>>
      [] OTHER ->
            <<82, 101, 103, 105, 115, 116, 101, 114, 101, 100, 67, 117, 114, 114, 101, 110,
              99, 105, 101, 115>>
\* CONFIG_ID: ConfigID(Self::ADDRESS, Self::IDENTIFIER)
ConfigIdOf(T) == <<ConfigAddressStr, Identifier(T)>>
OnChainConfigRegistry == {ConfigIdOf(T) : T \in ConfigTypes}

\* the shapes of TypeTag and StructTag: an address, two identifiers and the
\* type parameters; a TypeTag::Struct inside a type parameter has no type
\* parameters of its own here
UnitShape == RecordOf(<<>>)
TypeTagShape ==
    UnionOf(<<UnitShape, UnitShape, UnitShape, UnitShape, UnitShape, UnitShape,
              UnitShape,
              RecordOf(<<U16Shape, SeqOf(U8Shape), SeqOf(U8Shape), SeqOf(UnitShape)>>)>>)
StructTagShape ==
    RecordOf(<<U16Shape, SeqOf(U8Shape), SeqOf(U8Shape), SeqOf(TypeTagShape)>>)

\* TypeTag::Struct(StructTag { address, module, name, type_params })
TypeTagStruct(address, module, name) ==
    [tag |-> 7, val |-> <<address, module, name, <<>>>>]

\* AccessPath::resource_access_vec: a tag byte, then the canonical encoding
\* of the struct tag
ResourceAccessVec(struct_tag) == <<1>> \o ToBytes(StructTagShape, struct_tag)

\* mutant: the inner struct tag does not carry the config's name
AccessPathForConfigUnnamed(address, config_name) ==
    AccessPath(address,
               ResourceAccessVec(<<CoreCodeAddress, DiemConfigName, DiemConfigName,
                   <<TypeTagStruct(CoreCodeAddress, DiemConfigName, DiemConfigName)>>>>))

\* access_path_for_config
AccessPathForConfig(address, config_name) ==
    AccessPath(address,
               ResourceAccessVec(<<CoreCodeAddress, DiemConfigName, DiemConfigName,
                   <<TypeTagStruct(CoreCodeAddress, config_name, config_name)>>>>))

\* ConfigID::access_path: None stands for the panic of an expect()
ConfigIDAccessPath(id) ==
    IF IsSome(FromHexLiteral(id[1])) /\ IsSome(NewIdentifier(id[2]))
    THEN Some(AccessPathForConfig(Unwrap(FromHexLiteral(id[1])),
                                  Unwrap(NewIdentifier(id[2]))))
    ELSE None

\* the shape each registered type decodes into
ConfigShape(T) ==
    CASE T = "VMConfig" -> RecordOf(<<SeqOf(U8Shape), U16Shape>>)
      [] T = "VMPublishingOption" -> RecordOf(<<OptionOf(U8Shape), U8Shape>>)
      [] T = "DiemVersion" -> RecordOf(<<U16Shape>>)
      [] OTHER -> RecordOf(<<SeqOf(U8Shape)>>)

\* deserialize_default_impl: bcs::from_bytes::<Self>(&bytes)
DeserializeDefaultImpl(T, bytes) == FromBytes(ConfigShape(T), bytes)
\* deserialize_into_config
DeserializeIntoConfig(T, bytes) == DeserializeDefaultImpl(T, bytes)

\* ConfigStorage::fetch_config
StorageFetchConfig(store, access_path) == store[access_path]

\* mutant: a decode failure is unwrapped instead of turned into None
FetchConfigUnwrapping(T, store) ==
    LET ap == ConfigIDAccessPath(ConfigIdOf(T))
        bytes == IF IsSome(ap) THEN StorageFetchConfig(store, Unwrap(ap)) ELSE None
        d == DeserializeIntoConfig(T, Unwrap(bytes))
    IN IF ap = None THEN [panic |-> TRUE, config |-> None]
       ELSE IF bytes = None THEN [panic |-> FALSE, config |-> None]
       ELSE [panic |-> d = None, config |-> d]

\* OnChainConfig::fetch_config:
\* storage.fetch_config(ap).and_then(|bytes| deserialize_into_config(&bytes).ok())
FetchConfig(T, store) ==
    LET ap == ConfigIDAccessPath(ConfigIdOf(T))
        bytes == IF IsSome(ap) THEN StorageFetchConfig(store, Unwrap(ap)) ELSE None
        d == DeserializeIntoConfig(T, Unwrap(bytes))
    IN IF ap = None THEN [panic |-> TRUE, config |-> None]
       ELSE IF bytes = None THEN [panic |-> FALSE, config |-> None]
       ELSE [panic |-> FALSE, config |-> d]

RegistryPaths == {Unwrap(ConfigIDAccessPath(id)) : id \in OnChainConfigRegistry}

\* the blobs a store may hold for a config: an encoding of a value of some
\* registered type, one cut short, one with a byte behind it
StoredBlobs ==
    UNION {UNION {LET bytes == ToBytes(ConfigShape(T), v)
                  IN {bytes} \cup {SubSeq(bytes, 1, n) : n \in 0..(Len(bytes) - 1)}
                             \cup {Append(bytes, b) : b \in TrailingBytes} :
                  v \in Values(ConfigShape(T))} : T \in ConfigTypes}

\* the descriptors access paths are derived from: struct tags and module ids
\* over identifiers one of which is the front of the other
Identifiers == {<<97>>, <<97, 97>>}
StructTagIds ==
    {<<a, m, n, p>> : a \in Addresses, m \in Identifiers, n \in Identifiers,
        p \in {<<>>, <<TypeTagStruct(CoreCodeAddress, <<97>>, <<97>>)>>}}
ModuleIds == {<<a, n>> : a \in Addresses, n \in Identifiers}

\* AccessPath::new(address, descriptor.access_vector()); the access vector
\* of a module id is its tag byte and the canonical encoding of the id
DerivedPath(address, descriptor) ==
    AccessPath(address,
               IF descriptor.kind = "resource" THEN ResourceAccessVec(descriptor.id)
               ELSE <<0>> \o ToBytes(RecordOf(<<U16Shape, SeqOf(U8Shape)>>), descriptor.id))

ConfigInit ==
    /\ engine = "Mvm"
    /\ pc = "config"
    /\ tx = NoTx
    /\ gas_left = 0
    /\ vm_res = Err(VMError(EXECUTED, None, None))
    /\ gas_used = 0
    /\ effects = EmptyEffects
    /\ produced = None
    /\ handler = <<>>
    /\ balances = [w \in WalletIds |-> None]
    /\ steps = <<>>
    /\ result = None
    /\ vm = FreshVm
    /\ cost_table = DefaultCostTable
    /\ output = None
    /\ \/ \E T \in ConfigTypes, at \in ConfigTypes, blob \in StoredBlobs :
             /\ input = [kind |-> "fetch", T |-> T]
             /\ storage \in {[ap \in RegistryPaths |-> None],
                             [ap \in RegistryPaths |->
                                 IF ap = Unwrap(ConfigIDAccessPath(ConfigIdOf(at)))
                                 THEN Some(blob) ELSE None]}
       \/ /\ storage = [ap \in RegistryPaths |-> None]
          /\ \/ \E l \in OnChainConfigRegistry, r \in OnChainConfigRegistry :
                   input = [kind |-> "configs", left |-> l, right |-> r]
             \/ \E la \in Addresses, ra \in Addresses :
                   \/ \E l \in StructTagIds, r \in StructTagIds :
                         input = [kind |-> "paths",
                                  left |-> [address |-> la, kind |-> "resource", id |-> l],
                                  right |-> [address |-> ra, kind |-> "resource", id |-> r]]
                   \/ \E l \in StructTagIds, r \in ModuleIds :
                         input = [kind |-> "paths",
                                  left |-> [address |-> la, kind |-> "resource", id |-> l],
                                  right |-> [address |-> ra, kind |-> "module", id |-> r]]
                   \/ \E l \in ModuleIds, r \in ModuleIds :
                         input = [kind |-> "paths",
                                  left |-> [address |-> la, kind |-> "module", id |-> l],
                                  right |-> [address |-> ra, kind |-> "module", id |-> r]]
    /\ before = [storage |-> storage, handler |-> <<>>, balances |-> balances]

\* T::fetch_config(&storage)
ConfigFetch ==
    /\ pc = "config" /\ input.kind = "fetch"
    /\ LET f == FetchConfig(input.T, storage)
       IN /\ output' = Some(f.config)
          /\ pc' = IF f.panic THEN "panic" ELSE "fetched"
    /\ UNCHANGED <<steps, result>>
    /\ PureFrame

\* id.access_path() of two ConfigIDs
ConfigResolve ==
    /\ pc = "config" /\ input.kind = "configs"
    /\ LET l == ConfigIDAccessPath(input.left)
           r == ConfigIDAccessPath(input.right)
       IN IF IsSome(l) /\ IsSome(r)
          THEN output' = Some(<<Unwrap(l), Unwrap(r)>>) /\ pc' = "derived"
          ELSE output' = None /\ pc' = "panic"
    /\ UNCHANGED <<steps, result>>
    /\ PureFrame

\* AccessPath::new of two (address, descriptor) pairs
ConfigDerive ==
    /\ pc = "config" /\ input.kind = "paths"
    /\ output' = Some(<<DerivedPath(input.left.address, input.left),
                        DerivedPath(input.right.address, input.right)>>)
    /\ pc' = "derived"
    /\ UNCHANGED <<steps, result>>
    /\ PureFrame

ConfigNext == ConfigFetch \/ ConfigResolve \/ ConfigDerive

ConfigSpec == ConfigInit /\ [][ConfigNext]_vars

----------------------------------------------------------------------------
(* C16 *)

\* the bytes the store holds at the access path of the fetched type
StoredFor(T) == storage[Unwrap(ConfigIDAccessPath(ConfigIdOf(T)))]

\* C16: fetch_config returns an empty result, and neither an error nor an
\* abort, when the store holds no bytes at the ConfigID's access path and when
\* the bytes held there do not decode into the target type; it returns a
\* value only when bytes are there and decode, and then the decoded value.
C16_EmptyOnAbsenceOrGarbage ==
    (input.kind = "fetch") =>
        /\ pc # "panic"
        /\ pc = "fetched" =>
              LET held == StoredFor(input.T)
                  got == Unwrap(output)
              IN /\ held = None => got = None
                 /\ (IsSome(held) /\ FromBytes(ConfigShape(input.T), Unwrap(held)) = None)
                       => got = None
                 /\ IsSome(got) =>
                       /\ IsSome(held)
                       /\ ToBytes(ConfigShape(input.T), Unwrap(got)) = Unwrap(held)

\* bytes are held for the fetched type and do not decode: the result is empty
C16_Witness ==
    /\ input.kind = "fetch" /\ pc = "fetched"
    /\ IsSome(StoredFor(input.T))
    /\ FromBytes(ConfigShape(input.T), Unwrap(StoredFor(input.T))) = None
    /\ Unwrap(output) = None

----------------------------------------------------------------------------
(* C19 *)

\* C19: the access path is a function of (address, descriptor) that gives
\* equal keys for equal pairs and distinct keys for distinct pairs; the
\* ConfigIDs of the registry resolve to pairwise distinct access paths.
C19_PathsInjective ==
    (input.kind \in {"configs", "paths"}) =>
        /\ pc # "panic"
        /\ pc = "derived" =>
              (input.left = input.right <=> Unwrap(output)[1] = Unwrap(output)[2])

\* two registered ConfigIDs resolved to two access paths
C19_Witness ==
    /\ input.kind = "configs" /\ pc = "derived"
    /\ input.left = ConfigIdOf("VMConfig")
    /\ input.right = ConfigIdOf("DiemVersion")
    /\ Unwrap(output)[1] # Unwrap(output)[2]

----------------------------------------------------------------------------
(* C21 *)

\* the keys an effect set names
NamedKeys(e) ==
    {AccessPath(e.resources[i].addr, ResourceAccessVector(e.resources[i].struct_tag)) :
        i \in DOMAIN e.resources}
    \cup {AccessPath(e.modules[i].module_id.address,
                     ModuleAccessVector(e.modules[i].module_id.name)) :
              i \in DOMAIN e.modules}

\* the effect set of the call was applied and the call reported EXECUTED
AppliedOk ==
    /\ Returned /\ IsSome(produced)
    /\ StatusOf(TheResult) = EXECUTED /\ (engine = "Dvm" => TheResult.ok)

\* C21: after a successful effect application the key of every resource
\* effect None is absent from the storage, the key of every resource effect
\* Some(layout, value) holds the encoded value, the key of every module effect
\* holds the module blob whatever was stored there before, and every key no
\* effect names holds what it held before.
C21_StorageAfterEffects ==
    AppliedOk =>
        /\ \A i \in DOMAIN Produced.resources :
              LET r == Produced.resources[i]
                  ap == AccessPath(r.addr, ResourceAccessVector(r.struct_tag))
              IN IF r.val_opt = None THEN storage[ap] = None
                 ELSE storage[ap]
                         = SimpleSerialize(Unwrap(r.val_opt)[2], Unwrap(r.val_opt)[1])
        /\ \A i \in DOMAIN Produced.modules :
              LET m == Produced.modules[i]
              IN storage[AccessPath(m.module_id.address,
                                    ModuleAccessVector(m.module_id.name))] = Some(m.blob)
        /\ \A k \in Keys \ NamedKeys(Produced) : storage[k] = before.storage[k]

\* over a store that held a blob under every key: one resource deleted, one
\* written, one module overwritten, the other module key left as it was
C21_Witness ==
    /\ engine = "Mvm" /\ AppliedOk
    /\ \A k \in Keys : IsSome(before.storage[k])
    /\ Len(Produced.resources) = 2 /\ Len(Produced.modules) = 1
    /\ Produced.resources[1].val_opt = None /\ IsSome(Produced.resources[2].val_opt)
    /\ storage[AccessPath(1, ResourceAccessVector(1))] = None
    /\ storage[AccessPath(1, ModuleAccessVector(1))] = Some(<<MagicByte, 1>>)
    /\ storage[AccessPath(2, ModuleAccessVector(1))]
          = before.storage[AccessPath(2, ModuleAccessVector(1))]

----------------------------------------------------------------------------
(* C22 *)

\* the last call was the named one, on a wallet that had no entry
OnAbsent(name) ==
    /\ steps # <<>>
    /\ LastCall[1] = name
    /\ before.balances[LastCall[2]] = None

\* C22: deposit and withdraw both make a zero-balance entry for an
\* (address, ticker) that has none before they do anything else: a deposit
\* of a positive amount on an absent entry takes the fatal path and
\* get_balance returns 0 afterwards, not empty; a withdraw on an absent entry
\* leaves exactly the credited amount.  No other wallet is touched.
C22_EntryCreatedFirst ==
    /\ OnAbsent("deposit") =>
          /\ LastCall[3] > 0 => pc = "panic"
          /\ balances[LastCall[2]] = Some(0)
          /\ (IsSome(output) /\ Unwrap(input) = LastCall[2]) => Unwrap(output) = Some(0)
    /\ OnAbsent("withdraw") =>
          /\ pc = "host"
          /\ balances[LastCall[2]] = Some(LastCall[3])
          /\ (IsSome(output) /\ Unwrap(input) = LastCall[2])
                => Unwrap(output) = Some(LastCall[3])
    /\ (OnAbsent("deposit") \/ OnAbsent("withdraw")) =>
          \A w \in HostWallets \ {LastCall[2]} : balances[w] = before.balances[w]

\* a deposit of 10 on an empty bank was fatal and get_balance returns 0
C22_Witness ==
    /\ pc = "panic"
    /\ steps = <<<<"deposit", WalletA, 10>>>>
    /\ before.balances[WalletA] = None
    /\ input = Some(WalletA) /\ output = Some(Some(0))

----------------------------------------------------------------------------
(* One effect set applied by both engines over the same store *)

\* Mvm at the entry of handle_tx_effects: a script of two bytes ran on a
\* budget it used up and its session finished with an effect set without
\* events and without wallet operations
EquivInit ==
    /\ engine = "Mvm"
    /\ pc = "handle_tx_effects"
    /\ tx = [kind |-> "script", max_gas_amount |-> 2, code |-> <<9, 9>>, sender |-> 1]
    /\ gas_left = 0
    /\ gas_used = GasUsed(tx.max_gas_amount, gas_left)
    /\ \E e \in DvmEffectSets :
          /\ e.events = <<>>
          /\ vm_res = Ok(e) /\ effects = e /\ produced = Some(e)
    /\ \E h \in HostStates : storage = h.storage /\ balances = h.balances
    /\ handler = <<>>
    /\ before = [storage |-> storage, handler |-> <<>>, balances |-> balances]
    /\ steps = <<>>
    /\ result = None
    /\ vm = Load(FreshVm, tx.code)
    /\ cost_table = NewEngine("Mvm", storage).cost_table
    /\ input = None
    /\ output = None

\* Mvm has returned: what it did is kept, and a Dvm stands at the entry of
\* store_tx_effects with the same effect set over the store as Mvm met it
EquivSwitch ==
    /\ engine = "Mvm" /\ pc = "done"
    /\ output' = Some([storage |-> storage, steps |-> steps, result |-> Unwrap(result)])
    /\ engine' = "Dvm"
    /\ pc' = "store_tx_effects"
    /\ storage' = before.storage
    /\ effects' = Unwrap(produced)
    /\ steps' = <<>>
    /\ result' = None
    /\ cost_table' = NewEngine("Dvm", before.storage).cost_table
    /\ UNCHANGED <<tx, gas_left, vm_res, gas_used, produced, handler, balances,
                   before, vm, input>>

EquivNext ==
    \/ ApplyResource \/ ApplyModule \/ FinishTxEffects
    \/ EquivSwitch
    \/ DvmStoreResource \/ DvmStoreModule \/ DvmFinishStore

EquivSpec == EquivInit /\ [][EquivNext]_vars

----------------------------------------------------------------------------
(* C23 *)

\* what Mvm did with the effect set
ByMvm == Unwrap(output)

\* C23: for an effect set without events and without balance operations
\* Dvm::store_tx_effects and Mvm::handle_tx_effects issue the same sequence
\* of storage deletes and inserts and leave the storage in the same final
\* state, and when a resource cannot be encoded both report the
\* invariant-violation status, at the same resource.
C23_EnginesAgree ==
    (engine = "Dvm" /\ pc = "done") =>
        /\ steps = ByMvm.steps
        /\ storage = ByMvm.storage
        /\ StatusOf(TheResult) = StatusOf(ByMvm.result)
        /\ IF ResourceFails
           THEN /\ StatusOf(TheResult) = UNKNOWN_INVARIANT_VIOLATION_ERROR
                /\ Len(steps) = BadResource - 1
                /\ Len(ByMvm.steps) = BadResource - 1
           ELSE /\ StatusOf(TheResult) = EXECUTED
                /\ Len(steps) = Len(Produced.resources) + Len(Produced.modules)

\* the second resource of the effect set could not be encoded: both engines
\* wrote the first and reported the invariant violation
C23_Witness ==
    /\ engine = "Dvm" /\ pc = "done"
    /\ ResourceFails /\ BadResource = 2
    /\ Len(steps) = 1 /\ steps = ByMvm.steps
    /\ StatusOf(ByMvm.result) = UNKNOWN_INVARIANT_VIOLATION_ERROR
    /\ StatusOf(TheResult) = UNKNOWN_INVARIANT_VIOLATION_ERROR

====
